---- MODULE Spec2Model ----
(***************************************************************************)
(* Credential rotation and OAuth lifecycle core of LLM-API-Key-Proxy:      *)
(* QwenAuthBase (providers/qwen_auth_base.py) and ReauthCoordinator        *)
(* (utils/reauth_coordinator.py), with the file writes of                  *)
(* _save_credentials, lifespan and setup_new_credential, and lifespan's    *)
(* start-up deduplication (proxy_app/main.py).                             *)
(*                                                                         *)
(* The program is asyncio code: tasks are scheduled cooperatively, so the  *)
(* code between two suspension points (an await that really suspends) is   *)
(* atomic.  The variable running names the task that is executing between  *)
(* two suspension points; while it is set no other task takes a step.      *)
(***************************************************************************)
EXTENDS Integers, Sequences, FiniteSets, TLC

\* ------------------------------------------------------------------ bounds
\* Operations each client task starts.
MaxOps == 1
\* Clock ticks (of ClockStep seconds each) the model lets pass.
MaxTicks == 1
\* Calls of get_api_details the client of SpecBackoff makes, which is also the
\* longest run of consecutive refresh failures it can see.
MaxFailures == 5
\* Fine clock ticks (of FineStep seconds each) and operations per client in
\* SpecAvail.
MaxFineTicks == 3
MaxAvailOps == 2

\* Operations per client in SpecInline.
MaxInlineOps == 2

\* Chunks of a credential document (SpecWrite).
MaxChunks == 2

\* Credential files of the provider at start-up (SpecDedup).
MaxFiles == 3
MaxStreamChunks == 2
MaxStartInterval == 12
MaxPollSeconds == 15

\* ------------------------------------------------------- program constants
RefreshExpiryBufferSeconds == 10800
MaxRetries == 3
BackoffBase == 30
BackoffCap == 300
UnavailableTtlSeconds == 300
IdleTimeoutSeconds == 60
ReauthTimeoutSeconds == 300

\* The clock advances in steps of the coordinator's timeout, the longest of the
\* program's waiting times: after one step every timer that was running at the
\* start of the step has expired.
ClockStep == ReauthTimeoutSeconds

\* --------------------------------------------------------------- universe
\* Credential paths (file-backed OAuth credentials of one provider adapter).
Creds == {"c1", "c2"}
\* Client tasks: callers of the adapter's public coroutines.
Clients == {"t1", "t2"}
\* The refresh-queue worker task (_process_refresh_queue).
Worker == "w"
Procs == Clients \cup {Worker}
NoOne == "none"

\* expires_in values the token endpoint may return, in seconds: one below the
\* refresh buffer and one above it.
ExpiresInValues == {3600, 21600}

VARIABLES
  now,          \* time.time(), in seconds
  running,      \* the task executing between two suspension points, or NoOne
  cache,        \* _credentials_cache: path -> [at, rt, exp]
  file,         \* the credential files: path -> [at, rt, exp]
  issued,       \* tokens the token endpoint has issued so far (a token is a number; 0 is empty)
  refreshLock,  \* _refresh_locks: path -> holder (NoOne when free)
  failures,     \* _refresh_failures: path -> count
  nextAfter,    \* _next_refresh_after: path -> timestamp
  queue,        \* _refresh_queue: sequence of [path, force, needs_reauth]
  queued,       \* _queued_credentials
  unavailable,  \* _unavailable_credentials: path -> timestamp
  workerTask,   \* _queue_processor_task: "none" or "alive"
  waitSince,    \* when the worker began its current wait on the queue
  reauthLock,   \* ReauthCoordinator._active_reauth_lock: holder
  reauthTasks,  \* ReauthCoordinator._active_reauth_tasks: reauth_id -> owner of the task
  flow,         \* per caller: state of the interactive flow task it created
  flowStart,    \* per caller: when that task was created
  pc,           \* per task: where it is suspended or executing
  stack,        \* per task: return labels of the coroutines that called the current one
  local,        \* per task: path, force, needs_reauth, attempt of the current call
  exc,          \* per task: the exception that is propagating ("none" when none)
  ops,          \* per client: operations it may still start
  hist,         \* per task: observations of the current operation (history, not program state)
  target,       \* content of the credential file a writer works on: a sequence of chunks
  temp,         \* the temporary file of _save_credentials: [exists, data]
  writer,       \* the code path writing the file: [kind, pc, old, new, n, env]
  cache_doc,    \* the _credentials_cache entry of the written path, as the document json.dump makes of it
  oauth_credentials,           \* lifespan: the credential files of one provider, in enumeration order
  processed_emails,            \* lifespan: email -> path
  credentials_to_initialize,   \* lifespan: paths that passed the pre-scan
  final_oauth_credentials,     \* lifespan: paths kept
  lifespan,     \* lifespan: [pass, i], the pass it is in and its loop index
  skip_oauth_init,   \* lifespan: SKIP_OAUTH_INIT_CHECK is "true"
  rotating_client,   \* app.state.rotating_client: [created, oauth_credentials]
  stream,       \* one call of streaming_response_wrapper (see NoStream)
  PROXY_API_KEY,     \* os.getenv("PROXY_API_KEY"): a string, or None
  request,      \* the last request served: [endpoint, auth, status]
  poll,         \* the polling loop of one device-code flow (see NoPoll)
  details,      \* one call of get_api_details with any identifier (see NoDetails)
  trackingLock  \* _queue_tracking_lock: holder (NoOne when free)

\* The state of QwenAuthBase, ReauthCoordinator and their tasks.
proxyVars == <<now, running, cache, file, issued, refreshLock, failures, nextAfter,
               queue, queued, unavailable, workerTask, waitSince, reauthLock,
               reauthTasks, flow, flowStart, pc, stack, local, exc, ops, hist>>

\* The state of a file write and of the start-up deduplication.
writeVars == <<target, temp, writer, cache_doc>>
lifespanVars == <<oauth_credentials, processed_emails, credentials_to_initialize,
                  final_oauth_credentials, lifespan>>
\* The rest of the state of the proxy application.
authVars == <<PROXY_API_KEY, request>>
appVars == <<skip_oauth_init, rotating_client, stream, authVars>>
\* State of the adapter that the scenarios below look at more closely.
adapterVars == <<poll, details, trackingLock>>
outsideVars == <<writeVars, lifespanVars, appVars, adapterVars>>

vars == <<proxyVars, outsideVars>>

\* ---------------------------------------------------------------- helpers
\* Python dict operations on functions with a finite domain.
Has(d, k) == k \in DOMAIN d
Get(d, k, default) == IF k \in DOMAIN d THEN d[k] ELSE default
Put(d, k, v) == [x \in (DOMAIN d) \cup {k} |-> IF x = k THEN v ELSE d[x]]
Pop(d, k) == [x \in (DOMAIN d) \ {k} |-> d[x]]
EmptyDict == [x \in {} |-> 0]

Min(a, b) == IF a < b THEN a ELSE b

\* ------------------------------------------------------- credential records
\* A credential document: access_token, refresh_token (numbers; 0 is the empty
\* or missing token) and expiry_date in milliseconds.
CredRec(at, rt, exp) == [at |-> at, rt |-> rt, exp |-> exp]

\* Credential files the adapter may find at start-up: an expired token, a token
\* valid for six hours, and a document without refresh_token.
InitialFiles ==
  { CredRec(1, 1, 0), CredRec(1, 1, 21600 * 1000), CredRec(1, 0, 0) }

\* A token that never counts as expired.
NeverExpired(creds) == FALSE

\* _is_token_expired: expiry_date / 1000 < time.time() + REFRESH_EXPIRY_BUFFER_SECONDS
IsTokenExpired(creds) == creds.exp < (now + RefreshExpiryBufferSeconds) * 1000

\* A backoff that doubles without the cap.
UncappedBackoff(f) == BackoffBase * (2 ^ f)

\* backoff_seconds = min(300, 30 * (2 ** failures))
BackoffSeconds(f) == Min(BackoffCap, BackoffBase * (2 ^ f))

\* The failure count after one more failure.
FailuresAfterFailure(c) == Get(failures, c, 0) + 1

\* reauth_id = f"{provider_name}:{Path(credential_path).name}"; the model's
\* credential paths have distinct base names and one provider.
ReauthId(c) == c

\* An enqueue that never looks at the backoff timer.
NeverDropped(c, needs_reauth) == FALSE

\* if not needs_reauth: ... if now < backoff_until: return
DroppedForBackoff(c, needs_reauth) ==
  /\ ~needs_reauth
  /\ Has(nextAfter, c)
  /\ now < nextAfter[c]

\* Locks that never make a task wait (what the code would be without them).
RefreshLockIgnored(c) == TRUE
ReauthLockIgnored == TRUE

\* asyncio.Lock: acquire succeeds at once when the lock is not held.
RefreshLockFree(c) == refreshLock[c] = NoOne
ReauthLockFree == reauthLock = NoOne

\* -------------------------------------------------------- task bookkeeping
NoLocal == [path |-> "c1", force |-> FALSE, needs_reauth |-> FALSE, attempt |-> 0]
NewLocal(c, f, nr) == [path |-> c, force |-> f, needs_reauth |-> nr, attempt |-> 0]

\* Observations of a task's current operation (history, reset when it ends).
\*   op         the operation it runs
\*   resp       the last response of the token endpoint to its refresh POST
\*   refreshed  a refresh of its credential succeeded
\*   reauthed   an interactive flow for its credential succeeded
\*   arrived    it called execute_reauth while a flow for the same id ran
\*   erResult   how its execute_reauth ended: "none", "ok", "error", "timeout"
\*   avail      what is_credential_available returned: "none", "yes", "no"
\*   seen       the access token that was cached when the operation found the
\*              credential expired (-1 when it has not)
NoHist ==
  [op |-> "none", resp |-> "none", refreshed |-> FALSE, reauthed |-> FALSE,
   arrived |-> FALSE, erResult |-> "none", avail |-> "none", seen |-> -1]

PathOf(p) == local[p].path

LockLabels == {"lc_lock", "rt_lock", "w_lock"}

\* No file write and no start-up deduplication is under way.
NoWriter == [kind |-> "none", pc |-> "done", old |-> <<>>, new |-> <<>>, n |-> 0,
             env |-> FALSE]
\* The path names no file; the path has no cache entry.
NoFile == <<"ENOENT">>
NoDoc == <<>>
NoTemp == [exists |-> FALSE, data |-> <<>>]
NoClient == [created |-> FALSE, oauth_credentials |-> <<>>]

\* streaming_response_wrapper, not called:
\*   pc               where the generator is ("closed": it has finished)
\*   response_stream  the chunks the upstream generator has yet to yield
\*   end              how the upstream generator ends: "end" or "raise"
\*   disconnected     what request.is_disconnected() answers
\*   out              the frames yielded so far
\*   response_chunks  the parsed chunks collected for the log
\*   log              status codes passed to logger.log_final_response
\*   sent, raised, aborted   history: the chunks the upstream yields in all,
\*                    whether it has raised, whether the consumer closed the
\*                    generator at a yield
NoStream ==
  [pc |-> "closed", response_stream |-> <<>>, end |-> "end", disconnected |-> FALSE,
   out |-> <<>>, response_chunks |-> <<>>, log |-> <<>>,
   sent |-> <<>>, raised |-> FALSE, aborted |-> FALSE]

\* Python's None, where a string may stand.
None == "None"
\* No request was served yet.
NoRequest == [endpoint |-> "none", auth |-> None, status |-> 0]
AuthIdle == PROXY_API_KEY = None /\ request = NoRequest

\* The polling loop of _perform_interactive_oauth, not running:
\*   pc          "poll": at the loop test; "sleep": in asyncio.sleep(interval);
\*               "done": the loop is left
\*   time        time.time()
\*   start_time, interval, expires_in   the locals and dev_data["expires_in"]
\*   outcome     "token", "error" (an exception other than TimeoutError) or
\*               "timeout" (TimeoutError)
\*   answer, sent_at, before   history: the last poll's answer, when it was
\*               sent, and the interval before it
NoPoll ==
  [pc |-> "done", time |-> 0, start_time |-> 0, interval |-> 0, expires_in |-> 0,
   outcome |-> "none", answer |-> "none", sent_at |-> 0, before |-> 0]

\* One call of get_api_details(credential_identifier):
\*   pc          "call": not started; "refresh": in _refresh_token; "done"
\*   credential_identifier   the argument
\*   environ     the credential of QWEN_CODE_1_ACCESS_TOKEN and its companion
\*               variables, or NoCreds when they are not set
\*   disk        the content of the credential file, or NoCreds when there is
\*               no such file
\*   outcome     "returned" or "raised"
\*   access_token   the second element of the returned pair
NoCreds == [at |-> "", rt |-> 0, exp |-> 0]
NoDetails ==
  [pc |-> "done", credential_identifier |-> "none", environ |-> NoCreds,
   disk |-> NoCreds, outcome |-> "none", access_token |-> "none"]

AdapterIdle ==
  /\ poll = NoPoll
  /\ details = NoDetails
  /\ trackingLock = NoOne

AppIdle ==
  /\ skip_oauth_init = FALSE
  /\ rotating_client = NoClient
  /\ stream = NoStream
  /\ AuthIdle

OutsideIdle ==
  /\ target = <<>>
  /\ temp = NoTemp
  /\ writer = NoWriter
  /\ cache_doc = NoDoc
  /\ oauth_credentials = <<>>
  /\ processed_emails = EmptyDict
  /\ credentials_to_initialize = <<>>
  /\ final_oauth_credentials = <<>>
  /\ lifespan = [pass |-> "done", i |-> 0]
  /\ AppIdle
  /\ AdapterIdle

TypeOK ==
  /\ now \in Nat
  /\ running \in Procs \cup {NoOne}
  /\ DOMAIN cache \subseteq Creds
  /\ DOMAIN file = Creds
  /\ refreshLock \in [Creds -> Procs \cup {NoOne}]
  /\ queued \subseteq Creds
  /\ workerTask \in {"none", "alive"}
  /\ reauthLock \in Procs \cup {NoOne}

Init ==
  /\ now = 0
  /\ running = NoOne
  /\ cache = EmptyDict
  /\ file \in [Creds -> InitialFiles]
  /\ issued = 1
  /\ refreshLock = [c \in Creds |-> NoOne]
  /\ failures = EmptyDict
  /\ nextAfter = EmptyDict
  /\ queue = <<>>
  /\ queued = {}
  /\ unavailable = EmptyDict
  /\ workerTask = "none"
  /\ waitSince = 0
  /\ reauthLock = NoOne
  /\ reauthTasks = EmptyDict
  /\ flow = [p \in Procs |-> "none"]
  /\ flowStart = [p \in Procs |-> 0]
  /\ pc = [p \in Procs |-> IF p = Worker THEN "w_off" ELSE "idle"]
  /\ stack = [p \in Procs |-> <<>>]
  /\ local = [p \in Procs |-> NoLocal]
  /\ exc = [p \in Procs |-> "none"]
  /\ ops = [p \in Clients |-> MaxOps]
  /\ hist = [p \in Procs |-> NoHist]
  /\ OutsideIdle

coordVars == <<reauthLock, reauthTasks, flow, flowStart>>
queueVars == <<queue, queued, unavailable, workerTask, waitSince>>
backoffVars == <<failures, nextAfter>>
credVars == <<cache, file, issued>>

\* -------------------------------------------------------------- the clock
Tick(step) ==
  /\ running = NoOne
  /\ now + step <= MaxTicks * step
  /\ now' = now + step
  /\ UNCHANGED <<outsideVars, running, credVars, refreshLock, backoffVars, queueVars, coordVars,
                 pc, stack, local, exc, ops, hist>>

\* ------------------------------------------------------- calls and returns
\* The callee returns to the label its caller pushed; e is the exception that
\* leaves the callee ("none" for a normal return).  The task keeps running.
ReturnTo(p, e) ==
  /\ pc' = [pc EXCEPT ![p] = Head(stack[p])]
  /\ stack' = [stack EXCEPT ![p] = Tail(stack[p])]
  /\ exc' = [exc EXCEPT ![p] = e]
  /\ running' = p

\* _load_credentials(path) called with return label ret: a cache hit returns at
\* once, a miss goes for the per-credential lock.
CallLoad(p, c, ret) ==
  /\ exc' = exc
  /\ running' = p
  /\ IF Has(cache, c)
       THEN /\ pc' = [pc EXCEPT ![p] = ret]
            /\ stack' = stack
       ELSE /\ pc' = [pc EXCEPT ![p] = "lc_lock"]
            /\ stack' = [stack EXCEPT ![p] = <<ret>> \o @]

\* _refresh_token(path, force) called with return label ret.
CallRefresh(p, f, ret) ==
  /\ exc' = [exc EXCEPT ![p] = "none"]
  /\ running' = p
  /\ pc' = [pc EXCEPT ![p] = "rt_lock"]
  /\ stack' = [stack EXCEPT ![p] = <<ret>> \o @]
  /\ local' = [local EXCEPT ![p].force = f, ![p].attempt = 0]

\* A task that reaches a held lock suspends until the lock is released.
Block(p) ==
  /\ running = p
  /\ IF pc[p] \in LockLabels
       THEN ~RefreshLockFree(PathOf(p))
       ELSE pc[p] = "er_lock" /\ ~ReauthLockFree
  /\ running' = NoOne
  /\ UNCHANGED <<outsideVars, now, credVars, refreshLock, backoffVars, queueVars, coordVars,
                 pc, stack, local, exc, ops, hist>>

\* _load_credentials, from "async with await self._get_lock(path)" on: re-check
\* the cache, else read the file into the cache.  No suspension while the lock
\* is held, so the lock is free again when the step ends.
LoadCredentialsLocked(p) ==
  /\ pc[p] = "lc_lock"
  /\ running \in {NoOne, p}
  /\ RefreshLockFree(PathOf(p))
  /\ cache' = IF Has(cache, PathOf(p)) THEN cache
              ELSE Put(cache, PathOf(p), file[PathOf(p)])
  /\ ReturnTo(p, "none")
  /\ UNCHANGED <<outsideVars, now, file, issued, refreshLock, backoffVars, queueVars, coordVars,
                 local, ops, hist>>

\* Whether a refresh POST sent now for c falls into c's backoff window.
InBackoff(c) == Has(nextAfter, c) /\ now < nextAfter[c]

\* _refresh_token, from the lock to the first POST (lines 267-308).
RefreshTokenLocked(p) ==
  LET c == PathOf(p)
      cache1 == IF Has(cache, c) THEN cache ELSE Put(cache, c, file[c])
  IN
  /\ pc[p] = "rt_lock"
  /\ running \in {NoOne, p}
  /\ RefreshLockFree(c)
  /\ IF ~local[p].force /\ Has(cache, c) /\ ~IsTokenExpired(cache[c])
       THEN \* return cached_creds
            /\ ReturnTo(p, "none")
            /\ UNCHANGED <<cache, refreshLock, local, hist>>
       ELSE IF cache1[c].rt = 0
       THEN \* raise ValueError("No refresh_token found ...")
            /\ cache' = cache1
            /\ ReturnTo(p, "error")
            /\ UNCHANGED <<refreshLock, local, hist>>
       ELSE \* the first POST is sent; the task waits for the response
            /\ cache' = cache1
            /\ refreshLock' = [refreshLock EXCEPT ![c] = p]
            /\ local' = [local EXCEPT ![p].attempt = 0]
            /\ pc' = [pc EXCEPT ![p] = "rt_post"]
            /\ running' = NoOne
            /\ UNCHANGED <<stack, exc, hist>>
  /\ UNCHANGED <<outsideVars, now, file, issued, backoffVars, queueVars, coordVars, ops>>

\* Responses of the token endpoint to a refresh POST.
\*   ok      200 with access_token, expires_in and (rt = TRUE) a refresh_token
\*   empty   200 with an empty access_token
\*   null    200 with the JSON body null
\*   denied  401 or 403
\*   limited 429;  server 5xx;  network a request error or timeout
\*   client  any other 4xx
RefreshResponses ==
  [kind : {"ok"}, rt : BOOLEAN, expires_in : ExpiresInValues]
    \cup [kind : {"empty", "null", "denied", "limited", "server", "network", "client"},
          rt : {TRUE}, expires_in : {3600}]

\* Lines 407-416: the cached document is updated in place from the response.
UpdatedCreds(old, resp, token) ==
  CredRec(IF resp.kind = "empty" THEN 0 ELSE token,
          IF resp.rt THEN token ELSE old.rt,
          (now + resp.expires_in) * 1000)

\* Lines 380-387 and 396-401: one more failure, and the timer it sets.
FailuresRecorded(c) == Put(failures, c, FailuresAfterFailure(c))
TimerSet(c) == Put(nextAfter, c, now + BackoffSeconds(FailuresAfterFailure(c)))

\* _refresh_token: a response to the refresh POST arrives (lines 309-441).
RefreshResponse(p, resp) ==
  LET c == PathOf(p)
      new == UpdatedCreds(cache[c], resp, issued + 1)
      released == [refreshLock EXCEPT ![c] = NoOne]
  IN
  /\ pc[p] = "rt_post"
  /\ running = NoOne
  /\ CASE resp.kind \in {"ok", "empty"} ->
            \* the cached document is updated in place, then validated
            /\ cache' = Put(cache, c, new)
            /\ issued' = issued + 1
            /\ refreshLock' = released
            /\ IF new.at = 0 \/ new.rt = 0
                 THEN \* raise ValueError("Refreshed credentials missing ...")
                      /\ ReturnTo(p, "error")
                      /\ hist' = [hist EXCEPT ![p].resp = resp.kind]
                      /\ UNCHANGED <<file, backoffVars>>
                 ELSE \* clear the backoff, save, return
                      /\ failures' = Pop(failures, c)
                      /\ nextAfter' = Pop(nextAfter, c)
                      /\ file' = Put(file, c, new)
                      /\ hist' = [hist EXCEPT ![p].resp = resp.kind, ![p].refreshed = TRUE]
                      /\ ReturnTo(p, "none")
            /\ UNCHANGED local
       [] resp.kind = "null" ->
            \* new_token_data is None: the failure is recorded and raised
            /\ failures' = FailuresRecorded(c)
            /\ nextAfter' = TimerSet(c)
            /\ refreshLock' = released
            /\ ReturnTo(p, "error")
            /\ hist' = [hist EXCEPT ![p].resp = resp.kind]
            /\ UNCHANGED <<credVars, local>>
       [] resp.kind = "denied" ->
            \* needs_reauth: initialize_token(path) is called with the lock held
            /\ hist' = [hist EXCEPT ![p].resp = resp.kind]
            /\ pc' = [pc EXCEPT ![p] = "it"]
            /\ stack' = [stack EXCEPT ![p] = <<"rt_reauth_ret">> \o @]
            /\ running' = p
            /\ UNCHANGED <<credVars, refreshLock, backoffVars, local, exc>>
       [] resp.kind \in {"limited", "server", "network"} ->
            IF local[p].attempt < MaxRetries - 1
              THEN \* sleep, then the next attempt's POST
                   /\ local' = [local EXCEPT ![p].attempt = @ + 1]
                   /\ hist' = [hist EXCEPT ![p].resp = resp.kind]
                   /\ UNCHANGED <<credVars, refreshLock, backoffVars, pc, stack, exc, running>>
              ELSE \* raise: the exception leaves the retry loop and the function
                   /\ refreshLock' = released
                   /\ ReturnTo(p, "error")
                   /\ hist' = [hist EXCEPT ![p].resp = resp.kind]
                   /\ UNCHANGED <<credVars, backoffVars, local>>
       [] resp.kind = "client" ->
            /\ refreshLock' = released
            /\ ReturnTo(p, "error")
            /\ hist' = [hist EXCEPT ![p].resp = resp.kind]
            /\ UNCHANGED <<credVars, backoffVars, local>>
  /\ UNCHANGED <<outsideVars, now, queueVars, coordVars, ops>>

\* _refresh_token: a valid token arrives and _save_credentials raises (the
\* temporary file cannot be created, written or moved; lines 245-260).  The
\* cached document was already updated in place (lines 407-416) and the
\* backoff cleared (lines 434-435); the file keeps its content and the
\* exception leaves _refresh_token.
RefreshSaveFails(p, resp) ==
  LET c == PathOf(p)
      new == UpdatedCreds(cache[c], resp, issued + 1)
  IN
  /\ pc[p] = "rt_post"
  /\ running = NoOne
  /\ resp.kind = "ok"
  /\ new.at # 0 /\ new.rt # 0
  /\ cache' = Put(cache, c, new)
  /\ issued' = issued + 1
  /\ failures' = Pop(failures, c)
  /\ nextAfter' = Pop(nextAfter, c)
  /\ refreshLock' = [refreshLock EXCEPT ![c] = NoOne]
  /\ ReturnTo(p, "error")
  /\ hist' = [hist EXCEPT ![p].resp = resp.kind]
  /\ UNCHANGED <<outsideVars, now, file, local, queueVars, coordVars, ops>>

\* _refresh_token after initialize_token returned or raised (lines 369-393).
RefreshAfterReauth(p) ==
  LET c == PathOf(p) IN
  /\ pc[p] = "rt_reauth_ret"
  /\ running = p
  /\ refreshLock' = [refreshLock EXCEPT ![c] = NoOne]
  /\ IF exc[p] = "none"
       THEN /\ failures' = Pop(failures, c)
            /\ nextAfter' = Pop(nextAfter, c)
            /\ ReturnTo(p, "none")
       ELSE /\ failures' = FailuresRecorded(c)
            /\ nextAfter' = TimerSet(c)
            /\ ReturnTo(p, "error")
  /\ UNCHANGED <<outsideVars, now, credVars, queueVars, coordVars, local, ops, hist>>

\* ------------------------------------------------------- initialize_token
\* execute_reauth is called: the task goes for the coordinator's lock.
EnterExecuteReauth(p) ==
  /\ pc' = [pc EXCEPT ![p] = "er_lock"]
  /\ exc' = [exc EXCEPT ![p] = "none"]
  /\ running' = p
  /\ hist' = [hist EXCEPT ![p].arrived =
                \E q \in Procs : /\ flow[q] = "running"
                                 /\ ReauthId(PathOf(q)) = ReauthId(PathOf(p)),
                             ![p].erResult = "none"]
  /\ UNCHANGED stack

\* initialize_token: creds = await self._load_credentials(path)
InitializeTokenEntry(p) ==
  /\ pc[p] = "it"
  /\ running = p
  /\ CallLoad(p, PathOf(p), "it_loaded")
  /\ UNCHANGED <<outsideVars, now, credVars, refreshLock, backoffVars, queueVars, coordVars,
                 local, ops, hist>>

\* initialize_token: the reason, and what follows from it (lines 892-930).
InitializeTokenLoaded(p) ==
  LET c == PathOf(p) IN
  /\ pc[p] = "it_loaded"
  /\ running = p
  /\ IF exc[p] # "none"
       THEN ReturnTo(p, "error") /\ UNCHANGED <<local, hist>>
       ELSE IF cache[c].rt = 0
       THEN EnterExecuteReauth(p) /\ UNCHANGED local
       ELSE IF IsTokenExpired(cache[c])
       THEN CallRefresh(p, FALSE, "it_rt_ret") /\ UNCHANGED hist
       ELSE ReturnTo(p, "none") /\ UNCHANGED <<local, hist>>
  /\ UNCHANGED <<outsideVars, now, credVars, refreshLock, backoffVars, queueVars, coordVars, ops>>

\* initialize_token: the automatic refresh returned, or failed and the
\* interactive login follows (lines 900-927).
InitializeTokenAfterRefresh(p) ==
  /\ pc[p] = "it_rt_ret"
  /\ running = p
  /\ IF exc[p] = "none"
       THEN ReturnTo(p, "none") /\ UNCHANGED hist
       ELSE EnterExecuteReauth(p)
  /\ UNCHANGED <<outsideVars, now, credVars, refreshLock, backoffVars, queueVars, coordVars,
                 local, ops>>

\* ------------------------------------------------------ ReauthCoordinator
\* A finally block that leaves the task reference in place.
TasksKept(id) == reauthTasks

\* finally: self._active_reauth_tasks.pop(reauth_id, None)
TasksAfterCleanup(id) == Pop(reauthTasks, id)

\* execute_reauth from "async with self._active_reauth_lock" to the await of
\* the task (lines 49-75).  The lock stays held while the caller waits.
ExecuteReauthLocked(p) ==
  LET id == ReauthId(PathOf(p)) IN
  /\ pc[p] = "er_lock"
  /\ running \in {NoOne, p}
  /\ ReauthLockFree
  /\ reauthLock' = p
  /\ flowStart' = [flowStart EXCEPT ![p] = now]
  /\ IF Has(reauthTasks, id) /\ flow[reauthTasks[id]] = "running"
       THEN \* an active task for this id: wait for it
            /\ pc' = [pc EXCEPT ![p] = "er_join"]
            /\ UNCHANGED <<reauthTasks, flow>>
       ELSE \* create the task and register it
            /\ pc' = [pc EXCEPT ![p] = "er_wait"]
            /\ reauthTasks' = Put(reauthTasks, id, p)
            /\ flow' = [flow EXCEPT ![p] = "running"]
  /\ running' = NoOne
  /\ UNCHANGED <<outsideVars, now, credVars, refreshLock, backoffVars, queueVars,
                 stack, local, exc, ops, hist>>

\* Token data of a successful device-code flow: refresh_token may be absent.
FlowCreds(rt, expires_in, token) ==
  CredRec(token, IF rt THEN token ELSE 0, (now + expires_in) * 1000)

\* The interactive flow of caller p ends with a token: creds.update(...) and
\* _save_credentials (lines 800-864).
FlowSucceeds(p, rt, expires_in) ==
  LET c == PathOf(p)
      new == FlowCreds(rt, expires_in, issued + 1)
  IN
  /\ running = NoOne
  /\ flow[p] = "running"
  /\ now - flowStart[p] < ReauthTimeoutSeconds
  /\ cache' = Put(cache, c, new)
  /\ file' = Put(file, c, new)
  /\ issued' = issued + 1
  /\ flow' = [flow EXCEPT ![p] = "ok"]
  /\ UNCHANGED <<outsideVars, now, running, refreshLock, backoffVars, queueVars, reauthLock,
                 reauthTasks, flowStart, pc, stack, local, exc, ops, hist>>

\* The interactive flow raises: the device endpoint or a poll answers with an
\* error, or the device code expires.
FlowFails(p) ==
  /\ running = NoOne
  /\ flow[p] = "running"
  /\ now - flowStart[p] < ReauthTimeoutSeconds
  /\ flow' = [flow EXCEPT ![p] = "failed"]
  /\ UNCHANGED <<outsideVars, now, running, credVars, refreshLock, backoffVars, queueVars,
                 reauthLock, reauthTasks, flowStart, pc, stack, local, exc, ops, hist>>

\* The task p waits for in execute_reauth: its own, or the one it joined.
AwaitedTask(p) ==
  IF pc[p] = "er_join" THEN reauthTasks[ReauthId(PathOf(p))] ELSE p

\* wait_for(task, timeout) times out: the task is cancelled, the reference is
\* dropped, the lock is released and TimeoutError is raised (lines 78-86);
\* initialize_token turns it into ValueError.  A caller that had joined
\* cancels the task it waited for and starts its own (lines 61-75).
ExecuteReauthTimeout(p) ==
  LET id == ReauthId(PathOf(p)) IN
  /\ pc[p] \in {"er_wait", "er_join"}
  /\ running = NoOne
  /\ flow[AwaitedTask(p)] = "running"
  /\ now - flowStart[p] >= ReauthTimeoutSeconds
  /\ IF pc[p] = "er_wait"
       THEN /\ flow' = [flow EXCEPT ![p] = "cancelled"]
            /\ reauthTasks' = TasksAfterCleanup(id)
            /\ reauthLock' = NoOne
            /\ hist' = [hist EXCEPT ![p].erResult = "timeout"]
            /\ ReturnTo(p, "error")
            /\ UNCHANGED flowStart
       ELSE /\ flow' = [flow EXCEPT ![AwaitedTask(p)] = "cancelled", ![p] = "running"]
            /\ reauthTasks' = Put(reauthTasks, id, p)
            /\ flowStart' = [flowStart EXCEPT ![p] = now]
            /\ pc' = [pc EXCEPT ![p] = "er_wait"]
            /\ UNCHANGED <<reauthLock, hist, stack, exc, running>>
  /\ UNCHANGED <<outsideVars, now, credVars, refreshLock, backoffVars, queueVars, local, ops>>

\* The awaited task is done: execute_reauth returns its result or raises its
\* exception; the creator of the task drops the reference (lines 75-86).
ExecuteReauthDone(p) ==
  LET id == ReauthId(PathOf(p)) IN
  /\ pc[p] \in {"er_wait", "er_join"}
  /\ running = NoOne
  /\ flow[AwaitedTask(p)] \in {"ok", "failed"}
  /\ reauthTasks' = IF pc[p] = "er_wait" THEN TasksAfterCleanup(id) ELSE reauthTasks
  /\ reauthLock' = NoOne
  /\ IF flow[AwaitedTask(p)] = "ok"
       THEN /\ hist' = [hist EXCEPT ![p].reauthed = TRUE, ![p].erResult = "ok"]
            /\ ReturnTo(p, "none")
       ELSE /\ hist' = [hist EXCEPT ![p].erResult = "error"]
            /\ ReturnTo(p, "error")
  /\ UNCHANGED <<outsideVars, now, credVars, refreshLock, backoffVars, queueVars, flow, flowStart,
                 local, ops>>

\* ------------------------------------------------------------ RefreshQueue
\* _queue_refresh admits the item: not dropped for backoff, not already queued.
Admitted(c, needs_reauth) ==
  /\ ~DroppedForBackoff(c, needs_reauth)
  /\ c \notin queued

\* A worker task for every enqueue.
ProcessorAlwaysStarted == TRUE

\* _ensure_queue_processor_running: "if self._queue_processor_task is None or
\* self._queue_processor_task.done()" (line 541).
ProcessorNotRunning == workerTask = "none"

\* _queue_refresh and _ensure_queue_processor_running (lines 546-580): no
\* suspension, the queue is unbounded.  by is the calling task, which is idle
\* afterwards.
QueueRefresh(by, c, f, nr) ==
  LET start == Admitted(c, nr) /\ ProcessorNotRunning IN
  /\ queue' = IF Admitted(c, nr)
                THEN Append(queue, [path |-> c, force |-> f, needs_reauth |-> nr])
                ELSE queue
  /\ queued' = IF Admitted(c, nr) THEN queued \cup {c} ELSE queued
  /\ unavailable' = IF Admitted(c, nr) THEN Put(unavailable, c, now) ELSE unavailable
  /\ workerTask' = IF Admitted(c, nr) THEN "alive" ELSE workerTask
  /\ waitSince' = IF start THEN now ELSE waitSince
  /\ pc' = [pc EXCEPT ![by] = "idle", ![Worker] = IF start THEN "w_get" ELSE @]
  /\ stack' = [stack EXCEPT ![by] = <<>>]
  /\ exc' = [exc EXCEPT ![by] = "none"]
  /\ local' = [local EXCEPT ![by] = NoLocal]
  /\ hist' = [hist EXCEPT ![by] = NoHist]
  /\ running' = NoOne

\* ----------------------------------------------------- client operations
\* An idle client task calls one of the adapter's coroutines.
CanStart(p) ==
  /\ running = NoOne
  /\ pc[p] = "idle"
  /\ ops[p] > 0

StartOp(p, c, name) ==
  /\ CanStart(p)
  /\ ops' = [ops EXCEPT ![p] = @ - 1]
  /\ local' = [local EXCEPT ![p] = NewLocal(c, FALSE, FALSE)]
  /\ hist' = [hist EXCEPT ![p] = [NoHist EXCEPT !.op = name]]

\* get_api_details(path) for a credential file (get_auth_header takes the
\* same steps): load, then refresh inline when the token is expired.
GetApiDetails(p, c) ==
  /\ StartOp(p, c, "get_api_details")
  /\ CallLoad(p, c, "gad_loaded")
  /\ UNCHANGED <<outsideVars, now, credVars, refreshLock, backoffVars, queueVars, coordVars>>

GetApiDetailsLoaded(p) ==
  /\ pc[p] = "gad_loaded"
  /\ running = p
  /\ IF exc[p] = "none" /\ IsTokenExpired(cache[PathOf(p)])
       THEN /\ CallRefresh(p, FALSE, "op_ret")
            /\ hist' = [hist EXCEPT ![p].seen = cache[PathOf(p)].at]
       ELSE /\ pc' = [pc EXCEPT ![p] = "op_ret"]
            /\ UNCHANGED <<stack, exc, running, local, hist>>
  /\ UNCHANGED <<outsideVars, now, credVars, refreshLock, backoffVars, queueVars, coordVars, ops>>

\* initialize_token(path), called at start-up for every credential file.
InitializeToken(p, c) ==
  /\ StartOp(p, c, "initialize_token")
  /\ pc' = [pc EXCEPT ![p] = "it"]
  /\ stack' = [stack EXCEPT ![p] = <<"op_ret">>]
  /\ running' = p
  /\ UNCHANGED <<outsideVars, now, credVars, refreshLock, backoffVars, queueVars, coordVars, exc>>

\* proactively_refresh(path): load, then enqueue when the token is expired.
ProactivelyRefresh(p, c) ==
  /\ StartOp(p, c, "proactively_refresh")
  /\ CallLoad(p, c, "pr_loaded")
  /\ UNCHANGED <<outsideVars, now, credVars, refreshLock, backoffVars, queueVars, coordVars>>

ProactivelyRefreshLoaded(p) ==
  /\ pc[p] = "pr_loaded"
  /\ running = p
  /\ IF exc[p] = "none" /\ IsTokenExpired(cache[PathOf(p)])
       THEN QueueRefresh(p, PathOf(p), FALSE, FALSE)
       ELSE /\ pc' = [pc EXCEPT ![p] = "op_ret"]
            /\ UNCHANGED <<stack, exc, running, queueVars, local, hist>>
  /\ UNCHANGED <<outsideVars, now, credVars, refreshLock, backoffVars, coordVars, ops>>

\* _queue_refresh(path, force, needs_reauth) called by the rotating client,
\* e.g. the reactive refresh after an upstream 401/403.
ReactiveRefresh(p, c, f, nr) ==
  /\ CanStart(p)
  /\ ops' = [ops EXCEPT ![p] = @ - 1]
  /\ QueueRefresh(p, c, f, nr)
  /\ UNCHANGED <<outsideVars, now, credVars, refreshLock, backoffVars, coordVars>>

\* The operation returns to its caller, with its result or its exception; the
\* task's frame and the finished flow task it may have created are gone.
OpReturns(p) ==
  /\ pc[p] = "op_ret"
  /\ running = p
  /\ pc' = [pc EXCEPT ![p] = "idle"]
  /\ exc' = [exc EXCEPT ![p] = "none"]
  /\ local' = [local EXCEPT ![p] = NoLocal]
  /\ hist' = [hist EXCEPT ![p] = NoHist]
  /\ flow' = [flow EXCEPT ![p] = "none"]
  /\ flowStart' = [flowStart EXCEPT ![p] = 0]
  /\ running' = NoOne
  /\ UNCHANGED <<outsideVars, now, credVars, refreshLock, backoffVars, queueVars, reauthLock,
                 reauthTasks, stack, ops>>

\* An entry that is stale whatever its age.
AlwaysStale(c) == TRUE

\* now - marked_time > self._unavailable_ttl_seconds
StaleEntry(c) == now - unavailable[c] > UnavailableTtlSeconds

\* is_credential_available(path), called by the rotating client (lines
\* 513-537): a synchronous check that reaps an entry older than the TTL.
IsCredentialAvailable(p, c) ==
  LET reap == Has(unavailable, c) /\ StaleEntry(c) IN
  /\ CanStart(p)
  /\ ops' = [ops EXCEPT ![p] = @ - 1]
  /\ local' = [local EXCEPT ![p] = NewLocal(c, FALSE, FALSE)]
  /\ unavailable' = IF reap THEN Pop(unavailable, c) ELSE unavailable
  /\ hist' = [hist EXCEPT ![p] =
                [NoHist EXCEPT !.op = "is_credential_available",
                               !.avail = IF ~Has(unavailable, c) \/ reap
                                           THEN "yes" ELSE "no"]]
  /\ pc' = [pc EXCEPT ![p] = "op_ret"]
  /\ running' = p
  /\ UNCHANGED <<outsideVars, now, credVars, refreshLock, backoffVars, queue, queued, workerTask,
                 waitSince, coordVars, stack, exc>>

\* ------------------------------------------------------- the queue worker
\* self._unavailable_credentials.pop(path, None) (lines 620, 634, 646).
StillUnavailable(c) == unavailable
MarkedAvailable(c) == Pop(unavailable, c)

\* The worker's finally block and loop back to the wait on the queue
\* (lines 640-651): the credential leaves the queued and the unavailable set.
WorkerCleanup(c) ==
  /\ queued' = queued \ {c}
  /\ unavailable' = MarkedAvailable(c)
  /\ waitSince' = now
  /\ pc' = [pc EXCEPT ![Worker] = "w_get"]
  /\ stack' = [stack EXCEPT ![Worker] = <<>>]
  /\ exc' = [exc EXCEPT ![Worker] = "none"]
  /\ local' = [local EXCEPT ![Worker] = NoLocal]
  /\ hist' = [hist EXCEPT ![Worker] = NoHist]
  /\ running' = NoOne
  /\ UNCHANGED <<queue, workerTask>>

\* wait_for(self._refresh_queue.get(), timeout=60.0) returns an item.
WorkerGet ==
  /\ pc[Worker] = "w_get"
  /\ running = NoOne
  /\ queue # <<>>
  /\ local' = [local EXCEPT ![Worker] =
                 NewLocal(Head(queue).path, Head(queue).force, Head(queue).needs_reauth)]
  /\ hist' = [hist EXCEPT ![Worker] = [NoHist EXCEPT !.op = "worker"]]
  /\ queue' = Tail(queue)
  /\ pc' = [pc EXCEPT ![Worker] = "w_lock"]
  /\ running' = Worker
  /\ UNCHANGED <<outsideVars, now, credVars, refreshLock, backoffVars, queued, unavailable,
                 workerTask, waitSince, coordVars, stack, exc, ops>>

\* The timeout of wait_for(..., timeout=60.0) fires while the queue is empty:
\* the event loop abandons the worker's get() and schedules the worker, which
\* runs after the tasks that were scheduled before it (lines 588-591).
WorkerTimeout ==
  /\ pc[Worker] = "w_get"
  /\ running = NoOne
  /\ queue = <<>>
  /\ now - waitSince >= IdleTimeoutSeconds
  /\ pc' = [pc EXCEPT ![Worker] = "w_timeout"]
  /\ UNCHANGED <<outsideVars, now, running, credVars, refreshLock, backoffVars, queueVars,
                 coordVars, stack, local, exc, ops, hist>>

\* The worker runs with asyncio.TimeoutError: both sets are cleared, whatever
\* the queue holds by now, and the worker exits (lines 592-610).
WorkerIdleExit ==
  /\ pc[Worker] = "w_timeout"
  /\ running = NoOne
  /\ unavailable' = EmptyDict
  /\ queued' = {}
  /\ workerTask' = "none"
  /\ waitSince' = 0
  /\ pc' = [pc EXCEPT ![Worker] = "w_off"]
  /\ UNCHANGED <<outsideVars, now, running, credVars, refreshLock, backoffVars, queue,
                 coordVars, stack, local, exc, ops, hist>>

\* The worker processes the item it took (lines 612-671): under the
\* per-credential lock it re-checks the expiry, and calls _load_credentials
\* and _refresh_token while it holds that lock.
WorkerProcess ==
  LET c == PathOf(Worker) IN
  /\ pc[Worker] \in {"w_lock", "w_loaded", "w_rt_ret"}
  /\ IF pc[Worker] = "w_lock"
       THEN running \in {NoOne, Worker} /\ RefreshLockFree(c)
       ELSE running = Worker
  /\ CASE pc[Worker] = "w_lock" ->
            IF Has(cache, c) /\ ~IsTokenExpired(cache[c])
              THEN \* no longer expired: mark available, continue
                   /\ WorkerCleanup(c)
                   /\ UNCHANGED refreshLock
              ELSE \* the lock is held across the calls that follow
                   /\ refreshLock' = [refreshLock EXCEPT ![c] = Worker]
                   /\ IF ~Has(cache, c)
                        THEN CallLoad(Worker, c, "w_loaded") /\ UNCHANGED local
                        ELSE CallRefresh(Worker, local[Worker].force, "w_rt_ret")
                   /\ UNCHANGED <<queueVars, hist>>
       [] pc[Worker] = "w_loaded" ->
            IF exc[Worker] = "none"
              THEN /\ CallRefresh(Worker, local[Worker].force, "w_rt_ret")
                   /\ UNCHANGED <<refreshLock, queueVars, hist>>
              ELSE /\ refreshLock' = [refreshLock EXCEPT ![c] = NoOne]
                   /\ WorkerCleanup(c)
       [] pc[Worker] = "w_rt_ret" ->
            /\ refreshLock' = [refreshLock EXCEPT ![c] = NoOne]
            /\ WorkerCleanup(c)
  /\ UNCHANGED <<outsideVars, now, credVars, backoffVars, coordVars, ops>>

\* ---------------------------------------------------------- specification
\* Answers of the token endpoint in the main specification: every kind of
\* answer; a successful one carries a refresh_token and six hours of validity.
EndpointAnswers ==
  { r \in RefreshResponses : r.kind = "ok" => (r.rt /\ r.expires_in = 21600) }

\* A client task calls one of the adapter's coroutines.
ClientCalls ==
  \E p \in Clients, c \in Creds :
       \/ GetApiDetails(p, c)
       \/ InitializeToken(p, c)
       \/ ProactivelyRefresh(p, c)
       \/ \E f \in BOOLEAN, nr \in BOOLEAN : ReactiveRefresh(p, c, f, nr)

\* A task takes its next step inside _load_credentials, _refresh_token,
\* initialize_token or execute_reauth, or its operation returns.
TaskStep(p) ==
  \/ Block(p)
  \/ LoadCredentialsLocked(p)
  \/ RefreshTokenLocked(p)
  \/ \E resp \in EndpointAnswers : RefreshResponse(p, resp)
  \/ RefreshAfterReauth(p)
  \/ InitializeTokenEntry(p)
  \/ InitializeTokenLoaded(p)
  \/ InitializeTokenAfterRefresh(p)
  \/ ExecuteReauthLocked(p)
  \/ ExecuteReauthTimeout(p)
  \/ ExecuteReauthDone(p)
  \/ GetApiDetailsLoaded(p)
  \/ ProactivelyRefreshLoaded(p)
  \/ OpReturns(p)

\* The interactive flow a task created ends: the user logs in, or it fails.
FlowStep(p) ==
  \/ \E rt \in BOOLEAN : FlowSucceeds(p, rt, 21600)
  \/ FlowFails(p)

WorkerStep ==
  \/ WorkerGet
  \/ WorkerTimeout
  \/ WorkerIdleExit
  \/ WorkerProcess

Next ==
  \/ Tick(ClockStep)
  \/ ClientCalls
  \/ \E p \in Procs : TaskStep(p)
  \/ \E p \in Procs : FlowStep(p)
  \/ WorkerStep

Spec == Init /\ [][Next]_vars

\* Fair scheduling: a task that can take a step eventually takes one, a flow
\* that can end eventually ends, the token endpoint always answers.
Fairness ==
  /\ \A p \in Procs : WF_vars(TaskStep(p)) /\ WF_vars(FlowStep(p))
  /\ WF_vars(WorkerStep)

SpecLive == Init /\ [][Next]_vars /\ Fairness

\* One client calls get_api_details again and again for credentials whose
\* token is expired, and the token endpoint answers 200 with tokens or 200
\* with a null body (the answer after which _refresh_token records a failure).
BackoffClient == "t1"

InitBackoff ==
  /\ now = 0
  /\ running = NoOne
  /\ cache = EmptyDict
  /\ file = [c \in Creds |-> CredRec(1, 1, 0)]
  /\ issued = 1
  /\ refreshLock = [c \in Creds |-> NoOne]
  /\ failures = EmptyDict
  /\ nextAfter = EmptyDict
  /\ queue = <<>>
  /\ queued = {}
  /\ unavailable = EmptyDict
  /\ workerTask = "none"
  /\ waitSince = 0
  /\ reauthLock = NoOne
  /\ reauthTasks = EmptyDict
  /\ flow = [p \in Procs |-> "none"]
  /\ flowStart = [p \in Procs |-> 0]
  /\ pc = [p \in Procs |-> IF p = Worker THEN "w_off" ELSE "idle"]
  /\ stack = [p \in Procs |-> <<>>]
  /\ local = [p \in Procs |-> NoLocal]
  /\ exc = [p \in Procs |-> "none"]
  /\ ops = [p \in Clients |-> IF p = BackoffClient THEN MaxFailures ELSE 0]
  /\ hist = [p \in Procs |-> NoHist]
  /\ OutsideIdle

BackoffAnswers ==
  { r \in EndpointAnswers : r.kind \in {"ok", "null"} }

NextBackoff ==
  \/ Tick(ClockStep)
  \/ \E c \in Creds : GetApiDetails(BackoffClient, c)
  \/ LoadCredentialsLocked(BackoffClient)
  \/ GetApiDetailsLoaded(BackoffClient)
  \/ RefreshTokenLocked(BackoffClient)
  \/ \E resp \in BackoffAnswers : RefreshResponse(BackoffClient, resp)
  \/ OpReturns(BackoffClient)

SpecBackoff == InitBackoff /\ [][NextBackoff]_vars

\* The rotating client enqueues reactive refreshes and asks whether
\* credentials are available, proactively_refresh loads and enqueues, the
\* worker processes the queue, and the clock advances in steps of half the
\* TTL of an unavailable entry, so that an entry is seen younger than the TTL,
\* exactly as old, and older.
FineStep == UnavailableTtlSeconds \div 2

TickFine ==
  /\ running = NoOne
  /\ now + FineStep <= MaxFineTicks * FineStep
  /\ now' = now + FineStep
  /\ UNCHANGED <<outsideVars, running, credVars, refreshLock, backoffVars, queueVars, coordVars,
                 pc, stack, local, exc, ops, hist>>

InitAvail ==
  /\ now = 0
  /\ running = NoOne
  /\ cache = EmptyDict
  /\ file \in [Creds -> {CredRec(1, 1, 0), CredRec(1, 1, 21600 * 1000)}]
  /\ issued = 1
  /\ refreshLock = [c \in Creds |-> NoOne]
  /\ failures = EmptyDict
  /\ nextAfter = EmptyDict
  /\ queue = <<>>
  /\ queued = {}
  /\ unavailable = EmptyDict
  /\ workerTask = "none"
  /\ waitSince = 0
  /\ reauthLock = NoOne
  /\ reauthTasks = EmptyDict
  /\ flow = [p \in Procs |-> "none"]
  /\ flowStart = [p \in Procs |-> 0]
  /\ pc = [p \in Procs |-> IF p = Worker THEN "w_off" ELSE "idle"]
  /\ stack = [p \in Procs |-> <<>>]
  /\ local = [p \in Procs |-> NoLocal]
  /\ exc = [p \in Procs |-> "none"]
  /\ ops = [p \in Clients |-> MaxAvailOps]
  /\ hist = [p \in Procs |-> NoHist]
  /\ OutsideIdle

NextAvail ==
  \/ TickFine
  \/ \E p \in Clients, c \in Creds :
       \/ IsCredentialAvailable(p, c)
       \/ ProactivelyRefresh(p, c)
       \/ \E nr \in BOOLEAN : ReactiveRefresh(p, c, FALSE, nr)
  \/ \E p \in Procs :
       \/ Block(p)
       \/ LoadCredentialsLocked(p)
       \/ ProactivelyRefreshLoaded(p)
       \/ OpReturns(p)
  \/ WorkerStep

SpecAvail == InitAvail /\ [][NextAvail]_vars

\* ------------------------------------------- the queue-tracking mutex
\* The availability scenario with the sections under _queue_tracking_lock
\* taken apart: a task enters "async with self._queue_tracking_lock" in one
\* step and runs the body and leaves in the next.  Entering a free
\* asyncio.Lock does not suspend and no body suspends (the queue is
\* unbounded), so a task keeps running from the one step to the other.
elsewhereVars == <<writeVars, lifespanVars, appVars, poll, details>>

TrackingLockFree == trackingLock = NoOne

\* The lock after __aexit__ of "async with self._queue_tracking_lock".
TrackingKept == trackingLock
TrackingReleased == NoOne

\* _queue_refresh up to its "async with" (lines 558-570): return when the
\* credential is in backoff, else take the tracking mutex.
QueueRefreshEnters(p, c, nr) ==
  /\ IF DroppedForBackoff(c, nr)
       THEN /\ pc' = [pc EXCEPT ![p] = "idle"]
            /\ local' = [local EXCEPT ![p] = NoLocal]
            /\ hist' = [hist EXCEPT ![p] = NoHist]
            /\ running' = NoOne
            /\ UNCHANGED trackingLock
       ELSE /\ TrackingLockFree
            /\ trackingLock' = p
            /\ pc' = [pc EXCEPT ![p] = "qr_body"]
            /\ local' = [local EXCEPT ![p] = NewLocal(c, FALSE, nr)]
            /\ hist' = [hist EXCEPT ![p] = [NoHist EXCEPT !.op = "queue_refresh"]]
            /\ running' = p
  /\ UNCHANGED <<elsewhereVars, now, credVars, refreshLock, backoffVars, queueVars,
                 coordVars, stack, exc>>

\* The rotating client calls _queue_refresh(path, needs_reauth).
ReactiveEnters(p, c, nr) ==
  /\ CanStart(p)
  /\ ops' = [ops EXCEPT ![p] = @ - 1]
  /\ QueueRefreshEnters(p, c, nr)

\* proactively_refresh after its load (lines 492-504).
ProactiveEnters(p) ==
  /\ pc[p] = "pr_loaded"
  /\ running = p
  /\ IF exc[p] = "none" /\ IsTokenExpired(cache[PathOf(p)])
       THEN QueueRefreshEnters(p, PathOf(p), FALSE)
       ELSE /\ pc' = [pc EXCEPT ![p] = "op_ret"]
            /\ UNCHANGED <<elsewhereVars, trackingLock, now, credVars, refreshLock,
                           backoffVars, queueVars, coordVars, stack, exc, running,
                           local, hist>>
  /\ UNCHANGED ops

\* The body of _queue_refresh under the mutex (lines 571-580).
QueueRefreshTracked(p) ==
  /\ pc[p] = "qr_body"
  /\ running = p
  /\ QueueRefresh(p, PathOf(p), local[p].force, local[p].needs_reauth)
  /\ trackingLock' = TrackingReleased
  /\ UNCHANGED <<elsewhereVars, now, credVars, refreshLock, backoffVars, coordVars, ops>>

\* The worker, with asyncio.TimeoutError, enters the mutex (line 595).
IdleExitEnters ==
  /\ pc[Worker] = "w_timeout"
  /\ running = NoOne
  /\ TrackingLockFree
  /\ trackingLock' = Worker
  /\ pc' = [pc EXCEPT ![Worker] = "w_exit_body"]
  /\ running' = Worker
  /\ UNCHANGED <<elsewhereVars, now, credVars, refreshLock, backoffVars, queueVars,
                 coordVars, stack, local, exc, ops, hist>>

\* Both sets are cleared under the mutex and the worker exits (lines 596-610).
IdleExitTracked ==
  /\ pc[Worker] = "w_exit_body"
  /\ running = Worker
  /\ unavailable' = EmptyDict
  /\ queued' = {}
  /\ workerTask' = "none"
  /\ waitSince' = 0
  /\ pc' = [pc EXCEPT ![Worker] = "w_off"]
  /\ running' = NoOne
  /\ trackingLock' = TrackingReleased
  /\ UNCHANGED <<elsewhereVars, now, credVars, refreshLock, backoffVars, queue,
                 coordVars, stack, local, exc, ops, hist>>

\* The worker takes the per-credential lock of its item (lines 612-630).  A
\* credential that is no longer expired is marked available under the mutex,
\* which the worker enters while it holds the per-credential lock; otherwise
\* it calls _load_credentials and _refresh_token under the per-credential
\* lock, and enters the mutex of the finally block once they have returned
\* and the per-credential lock is released.
WorkerProcessEnters ==
  LET c == PathOf(Worker) IN
  /\ pc[Worker] \in {"w_lock", "w_loaded", "w_rt_ret"}
  /\ IF pc[Worker] = "w_lock"
       THEN running \in {NoOne, Worker} /\ RefreshLockFree(c)
       ELSE running = Worker
  /\ CASE pc[Worker] = "w_lock" ->
            /\ refreshLock' = [refreshLock EXCEPT ![c] = Worker]
            /\ IF Has(cache, c) /\ ~IsTokenExpired(cache[c])
                 THEN /\ TrackingLockFree
                      /\ trackingLock' = Worker
                      /\ pc' = [pc EXCEPT ![Worker] = "w_skip"]
                      /\ running' = Worker
                      /\ UNCHANGED <<stack, exc, local>>
                 ELSE /\ IF ~Has(cache, c)
                           THEN CallLoad(Worker, c, "w_loaded") /\ UNCHANGED local
                           ELSE CallRefresh(Worker, local[Worker].force, "w_rt_ret")
                      /\ UNCHANGED trackingLock
       [] pc[Worker] = "w_loaded" /\ exc[Worker] = "none" ->
            /\ CallRefresh(Worker, local[Worker].force, "w_rt_ret")
            /\ UNCHANGED <<refreshLock, trackingLock>>
       [] OTHER ->
            /\ refreshLock' = [refreshLock EXCEPT ![c] = NoOne]
            /\ TrackingLockFree
            /\ trackingLock' = Worker
            /\ pc' = [pc EXCEPT ![Worker] = "w_finally"]
            /\ UNCHANGED <<stack, exc, local, running>>
  /\ UNCHANGED <<elsewhereVars, now, credVars, backoffVars, queueVars, coordVars, ops, hist>>

\* The credential is marked available under both locks; "continue" leaves
\* the mutex and the per-credential lock and enters the mutex of the finally
\* block (lines 619-625, 643).
WorkerSkipTracked ==
  LET c == PathOf(Worker) IN
  /\ pc[Worker] = "w_skip"
  /\ running = Worker
  /\ unavailable' = MarkedAvailable(c)
  /\ refreshLock' = [refreshLock EXCEPT ![c] = NoOne]
  /\ trackingLock' = Worker
  /\ pc' = [pc EXCEPT ![Worker] = "w_finally"]
  /\ UNCHANGED <<elsewhereVars, now, credVars, backoffVars, queue, queued, workerTask,
                 waitSince, coordVars, stack, local, exc, ops, hist, running>>

\* The finally block under the mutex, and the loop back to the wait on the
\* queue (lines 644-651); after an exception of the load or the refresh the
\* handler of lines 662-671 has entered and left the mutex once more.
WorkerFinallyTracked ==
  /\ pc[Worker] = "w_finally"
  /\ running = Worker
  /\ WorkerCleanup(PathOf(Worker))
  /\ trackingLock' = TrackingReleased
  /\ UNCHANGED <<elsewhereVars, now, credVars, refreshLock, backoffVars, coordVars, ops>>

NextTrack ==
  \/ TickFine
  \/ \E p \in Clients, c \in Creds :
       \/ ProactivelyRefresh(p, c)
       \/ \E nr \in BOOLEAN : ReactiveEnters(p, c, nr)
  \/ \E p \in Procs :
       \/ Block(p)
       \/ LoadCredentialsLocked(p)
       \/ ProactiveEnters(p)
       \/ QueueRefreshTracked(p)
       \/ OpReturns(p)
  \/ WorkerGet
  \/ WorkerTimeout
  \/ IdleExitEnters
  \/ IdleExitTracked
  \/ WorkerProcessEnters
  \/ WorkerSkipTracked
  \/ WorkerFinallyTracked

SpecTrack == InitAvail /\ [][NextTrack]_vars

\* ---------------------------------------------------- the inline scenario
\* Requests only: tasks call get_api_details, which refreshes inline, and the
\* token endpoint answers every refresh POST with 200 and a token.  Credential
\* files start expired long ago, inside the refresh buffer, fresh, or without
\* a refresh_token.
InlineFiles ==
  {CredRec(1, 1, 0), CredRec(1, 1, 7200 * 1000), CredRec(1, 1, 21600 * 1000),
   CredRec(1, 0, 0)}

InlineAnswers == { resp \in RefreshResponses : resp.kind = "ok" }

InitInline ==
  /\ now = 0
  /\ running = NoOne
  /\ cache = EmptyDict
  /\ file \in [Creds -> InlineFiles]
  /\ issued = 1
  /\ refreshLock = [c \in Creds |-> NoOne]
  /\ failures = EmptyDict
  /\ nextAfter = EmptyDict
  /\ queue = <<>>
  /\ queued = {}
  /\ unavailable = EmptyDict
  /\ workerTask = "none"
  /\ waitSince = 0
  /\ reauthLock = NoOne
  /\ reauthTasks = EmptyDict
  /\ flow = [p \in Procs |-> "none"]
  /\ flowStart = [p \in Procs |-> 0]
  /\ pc = [p \in Procs |-> IF p = Worker THEN "w_off" ELSE "idle"]
  /\ stack = [p \in Procs |-> <<>>]
  /\ local = [p \in Procs |-> NoLocal]
  /\ exc = [p \in Procs |-> "none"]
  /\ ops = [p \in Clients |-> MaxInlineOps]
  /\ hist = [p \in Procs |-> NoHist]
  /\ OutsideIdle

NextInline ==
  \/ Tick(ClockStep)
  \/ \E p \in Clients, c \in Creds : GetApiDetails(p, c)
  \/ \E p \in Clients :
       \/ Block(p)
       \/ LoadCredentialsLocked(p)
       \/ GetApiDetailsLoaded(p)
       \/ RefreshTokenLocked(p)
       \/ \E resp \in InlineAnswers : RefreshResponse(p, resp)
       \/ OpReturns(p)

SpecInline == InitInline /\ [][NextInline]_vars

\* The inline scenario on a disk that may refuse the write of a credential
\* file.
NextSaveFails ==
  \/ NextInline
  \/ \E p \in Clients, resp \in InlineAnswers : RefreshSaveFails(p, resp)

SpecSaveFails == InitInline /\ [][NextSaveFails]_vars

\* ------------------------------------------------------------ file writes
\* One code path rewrites one credential file, and the process may be killed
\* between any two steps.  A document is a non-empty sequence of chunks, a
\* chunk being what one write() puts into a file.
\*   save      QwenAuthBase._save_credentials, after a refresh and after an
\*             interactive re-auth (qwen_auth_base.py 203-260)
\*   metadata  lifespan's metadata update (main.py 535-548)
\*   tool      setup_new_credential's overwrite (credential_tool.py 346-348)
Chunks == {"a", "b"}
Docs == UNION { [1..n -> Chunks] : n \in 1..MaxChunks }
WriterKinds == {"save", "metadata", "tool"}

\* QwenAuthBase, ReauthCoordinator and their tasks at rest.
ProxyIdle ==
  /\ now = 0
  /\ running = NoOne
  /\ cache = EmptyDict
  /\ file = [c \in Creds |-> CredRec(1, 1, 0)]
  /\ issued = 1
  /\ refreshLock = [c \in Creds |-> NoOne]
  /\ failures = EmptyDict
  /\ nextAfter = EmptyDict
  /\ queue = <<>>
  /\ queued = {}
  /\ unavailable = EmptyDict
  /\ workerTask = "none"
  /\ waitSince = 0
  /\ reauthLock = NoOne
  /\ reauthTasks = EmptyDict
  /\ flow = [p \in Procs |-> "none"]
  /\ flowStart = [p \in Procs |-> 0]
  /\ pc = [p \in Procs |-> IF p = Worker THEN "w_off" ELSE "idle"]
  /\ stack = [p \in Procs |-> <<>>]
  /\ local = [p \in Procs |-> NoLocal]
  /\ exc = [p \in Procs |-> "none"]
  /\ ops = [p \in Clients |-> 0]
  /\ hist = [p \in Procs |-> NoHist]

LifespanIdle ==
  /\ oauth_credentials = <<>>
  /\ processed_emails = EmptyDict
  /\ credentials_to_initialize = <<>>
  /\ final_oauth_credentials = <<>>
  /\ lifespan = [pass |-> "done", i |-> 0]

InitWrite ==
  /\ ProxyIdle
  /\ LifespanIdle
  /\ AppIdle
  /\ AdapterIdle
  /\ writer \in { w \in [kind : WriterKinds, pc : {"start"}, old : Docs \cup {NoFile},
                          new : Docs, n : {0}, env : BOOLEAN] :
                      (w.env \/ w.old = NoFile) => w.kind = "save" }
  /\ target = writer.old
  /\ temp = NoTemp
  /\ cache_doc \in {NoDoc, writer.new}

\* The file after chunk k of doc was written at offset k - 1 of content.
WriteChunk(content, doc, k) ==
  IF k <= Len(content) THEN [content EXCEPT ![k] = doc[k]]
  ELSE Append(content, doc[k])

\* Where a writer goes after a chunk: on with the dump, or to the step after.
AfterChunk(after) ==
  IF writer.n + 1 = Len(writer.new) THEN after ELSE writer.pc

\* _save_credentials, line 205: the credentials carry loaded_from_env.
NeverFromEnv(w) == FALSE
LoadedFromEnv(w) == w.env

\* _save_credentials of credentials loaded from the environment (205-209):
\* the cache entry is set and nothing else is done.
SaveEnv ==
  /\ writer.kind = "save" /\ writer.pc = "start"
  /\ LoadedFromEnv(writer)
  /\ cache_doc' = writer.new
  /\ writer' = [writer EXCEPT !.pc = "done"]
  /\ UNCHANGED <<proxyVars, lifespanVars, appVars, adapterVars, target, temp>>

\* _save_credentials: tempfile.mkstemp in the target's directory (219-221).
SaveMkstemp ==
  /\ writer.kind = "save" /\ writer.pc = "start"
  /\ ~LoadedFromEnv(writer)
  /\ temp' = [exists |-> TRUE, data |-> <<>>]
  /\ writer' = [writer EXCEPT !.pc = "sc_dump"]
  /\ UNCHANGED <<proxyVars, lifespanVars, appVars, adapterVars, cache_doc, target>>

\* _save_credentials: json.dump into the temporary file (224-226).
SaveDump ==
  /\ writer.kind = "save" /\ writer.pc = "sc_dump"
  /\ temp' = [temp EXCEPT !.data = WriteChunk(@, writer.new, writer.n + 1)]
  /\ writer' = [writer EXCEPT !.n = @ + 1, !.pc = AfterChunk("sc_move")]
  /\ UNCHANGED <<proxyVars, lifespanVars, appVars, adapterVars, cache_doc, target>>

\* _save_credentials: shutil.move(tmp_path, path), a rename within one
\* directory (236), then the cache entry is set (240).
SaveMove ==
  /\ writer.kind = "save" /\ writer.pc = "sc_move"
  /\ target' = temp.data
  /\ temp' = NoTemp
  /\ cache_doc' = writer.new
  /\ writer' = [writer EXCEPT !.pc = "done"]
  /\ UNCHANGED <<proxyVars, lifespanVars, appVars, adapterVars>>

\* _save_credentials: the dump or the move raises; the temporary file is
\* removed and the exception re-raised (245-260).
SaveRaises ==
  /\ writer.kind = "save" /\ writer.pc \in {"sc_dump", "sc_move"}
  /\ temp' = NoTemp
  /\ writer' = [writer EXCEPT !.pc = "raised"]
  /\ UNCHANGED <<proxyVars, lifespanVars, appVars, adapterVars, cache_doc, target>>

\* lifespan: open(path, "r+"), json.load, f.seek(0) (main.py 538-544).
MetadataOpen ==
  /\ writer.kind = "metadata" /\ writer.pc = "start"
  /\ writer' = [writer EXCEPT !.pc = "mu_dump"]
  /\ UNCHANGED <<proxyVars, lifespanVars, appVars, adapterVars, cache_doc, target, temp>>

\* lifespan: json.dump over the old content, from offset 0 (main.py 545).
MetadataDump ==
  /\ writer.kind = "metadata" /\ writer.pc = "mu_dump"
  /\ target' = WriteChunk(target, writer.new, writer.n + 1)
  /\ writer' = [writer EXCEPT !.n = @ + 1, !.pc = AfterChunk("mu_truncate")]
  /\ UNCHANGED <<proxyVars, lifespanVars, appVars, adapterVars, cache_doc, temp>>

\* lifespan: f.truncate() at the end of the new document (main.py 546).
MetadataTruncate ==
  /\ writer.kind = "metadata" /\ writer.pc = "mu_truncate"
  /\ target' = SubSeq(target, 1, Len(writer.new))
  /\ writer' = [writer EXCEPT !.pc = "done"]
  /\ UNCHANGED <<proxyVars, lifespanVars, appVars, adapterVars, cache_doc, temp>>

\* setup_new_credential: open(cred_file, 'w') empties the file
\* (credential_tool.py 347).
ToolOpen ==
  /\ writer.kind = "tool" /\ writer.pc = "start"
  /\ target' = <<>>
  /\ writer' = [writer EXCEPT !.pc = "ct_dump"]
  /\ UNCHANGED <<proxyVars, lifespanVars, appVars, adapterVars, cache_doc, temp>>

\* setup_new_credential: json.dump into the emptied file
\* (credential_tool.py 348).
ToolDump ==
  /\ writer.kind = "tool" /\ writer.pc = "ct_dump"
  /\ target' = WriteChunk(target, writer.new, writer.n + 1)
  /\ writer' = [writer EXCEPT !.n = @ + 1, !.pc = AfterChunk("done")]
  /\ UNCHANGED <<proxyVars, lifespanVars, appVars, adapterVars, cache_doc, temp>>

\* The process is killed between two steps of the writer; the files stay as
\* they are.
Crash ==
  /\ writer.pc \notin {"done", "raised", "crashed"}
  /\ writer' = [writer EXCEPT !.pc = "crashed"]
  /\ UNCHANGED <<proxyVars, lifespanVars, appVars, adapterVars, cache_doc, target, temp>>

NextWrite ==
  \/ SaveEnv
  \/ SaveMkstemp
  \/ SaveDump
  \/ SaveMove
  \/ SaveRaises
  \/ MetadataOpen
  \/ MetadataDump
  \/ MetadataTruncate
  \/ ToolOpen
  \/ ToolDump
  \/ Crash

SpecWrite == InitWrite /\ [][NextWrite]_vars

\* ------------------------------------------------- start-up deduplication
\* lifespan (main.py 404-550) for the credential files of one provider.  A
\* path is the file's position in the enumeration order.  Of a file:
\*   pre    the email in its _proxy_metadata when the pre-scan reads it
\*          (NoEmail: none, or the file cannot be read or parsed)
\*   post   the email get_user_info returns after initialize_token
\*   error  process_credential caught an exception for it
\* An email the metadata already holds is the one get_user_info returns
\* (qwen_auth_base.py 959-972).
Emails == {"e1", "e2"}
NoEmail == ""

CredentialFiles ==
  { f \in [pre : Emails \cup {NoEmail}, post : Emails \cup {NoEmail}, error : BOOLEAN] :
      f.pre # NoEmail => f.post = f.pre }

InitDedup ==
  /\ ProxyIdle
  /\ target = <<>>
  /\ temp = NoTemp
  /\ writer = NoWriter
  /\ cache_doc = NoDoc
  /\ oauth_credentials \in UNION { [1..n -> CredentialFiles] : n \in 1..MaxFiles }
  /\ processed_emails = EmptyDict
  /\ credentials_to_initialize = <<>>
  /\ final_oauth_credentials = <<>>
  /\ skip_oauth_init \in BOOLEAN
  /\ lifespan = IF skip_oauth_init THEN [pass |-> "skipped", i |-> 0]
                ELSE [pass |-> "pass1", i |-> 1]
  /\ rotating_client = NoClient
  /\ stream = NoStream
  /\ AuthIdle
  /\ AdapterIdle

\* Pass 1, one turn of the loop over the paths (main.py 410-446): a path whose
\* metadata names an email already seen is dropped, any other goes on to
\* initialization.
PreScan ==
  LET path == lifespan.i
      email == oauth_credentials[path].pre
  IN
  /\ lifespan.pass = "pass1"
  /\ path <= Len(oauth_credentials)
  /\ IF email # NoEmail /\ Has(processed_emails, email)
       THEN UNCHANGED <<processed_emails, credentials_to_initialize>>
       ELSE /\ processed_emails' =
                 IF email # NoEmail THEN Put(processed_emails, email, path)
                 ELSE processed_emails
            /\ credentials_to_initialize' = Append(credentials_to_initialize, path)
  /\ lifespan' = [lifespan EXCEPT !.i = @ + 1]
  /\ UNCHANGED <<proxyVars, writeVars, appVars, adapterVars, oauth_credentials, final_oauth_credentials>>

\* Pass 2 (main.py 448-484): asyncio.gather runs process_credential for every
\* path left and returns the results in the order of the paths.
Gather ==
  /\ lifespan.pass = "pass1"
  /\ lifespan.i > Len(oauth_credentials)
  /\ lifespan' = [pass |-> "pass3", i |-> 1]
  /\ UNCHANGED <<proxyVars, writeVars, appVars, adapterVars, oauth_credentials, processed_emails,
                 credentials_to_initialize, final_oauth_credentials>>

\* Pass 3, one turn of the loop over the results (main.py 486-548).
PostInit ==
  LET path == credentials_to_initialize[lifespan.i]
      email == oauth_credentials[path].post
  IN
  /\ lifespan.pass = "pass3"
  /\ lifespan.i <= Len(credentials_to_initialize)
  /\ IF oauth_credentials[path].error
       THEN \* if error: continue
            UNCHANGED <<oauth_credentials, processed_emails, final_oauth_credentials>>
       ELSE IF email = NoEmail
       THEN \* no email: kept as unique
            /\ final_oauth_credentials' = Append(final_oauth_credentials, path)
            /\ UNCHANGED <<oauth_credentials, processed_emails>>
       ELSE IF Has(processed_emails, email) /\ processed_emails[email] # path
       THEN \* "Duplicate ... found post-init ... Skipping."
            UNCHANGED <<oauth_credentials, processed_emails, final_oauth_credentials>>
       ELSE \* kept, and the email is written to the file's metadata
            /\ processed_emails' = Put(processed_emails, email, path)
            /\ final_oauth_credentials' = Append(final_oauth_credentials, path)
            /\ oauth_credentials' = [oauth_credentials EXCEPT ![path].pre = email]
  /\ lifespan' = [lifespan EXCEPT !.i = @ + 1]
  /\ UNCHANGED <<proxyVars, writeVars, appVars, adapterVars, credentials_to_initialize>>

\* The loop over the results is over.
Complete ==
  /\ lifespan.pass = "pass3"
  /\ lifespan.i > Len(credentials_to_initialize)
  /\ lifespan' = [pass |-> "done", i |-> 0]
  /\ UNCHANGED <<proxyVars, writeVars, appVars, adapterVars, oauth_credentials, processed_emails,
                 credentials_to_initialize, final_oauth_credentials>>

\* The client is created with the credentials start-up is left with (main.py
\* 549-570): the paths kept (line 551) when the validation ran, every path
\* discovered when SKIP_OAUTH_INIT_CHECK made line 404 skip it.
CreateClient ==
  /\ lifespan.pass \in {"done", "skipped"}
  /\ ~rotating_client.created
  /\ rotating_client' =
       [created |-> TRUE,
        oauth_credentials |->
          IF lifespan.pass = "skipped"
            THEN [k \in 1..Len(oauth_credentials) |-> k]
            ELSE final_oauth_credentials]
  /\ UNCHANGED <<proxyVars, writeVars, lifespanVars, skip_oauth_init, stream, authVars, adapterVars>>

NextDedup ==
  \/ PreScan
  \/ Gather
  \/ PostInit
  \/ Complete
  \/ CreateClient

SpecDedup == InitDedup /\ [][NextDedup]_vars

\* ------------------------------------------------------ streamed responses
\* streaming_response_wrapper (main.py 658-813).  Chunks the upstream may
\* yield: an event with a JSON body, the end marker, an event whose body is
\* not JSON, and a line that is no data event.
JsonChunk == "data: {}"
DoneFrame == "data: [DONE]"
ErrorFrame == "data: {error}"
StreamChunks == {JsonChunk, DoneFrame, "data: x", ": ping"}
StreamEnds == {"end", "raise"}

\* Lines 674-684: the chunk is collected when it is a data event other than
\* the end marker and its body parses as JSON.
Collected(chunks, chunk_str) ==
  IF chunk_str = JsonChunk THEN Append(chunks, chunk_str) ELSE chunks

\* The finally clause (705-813): with chunks collected, the aggregated
\* response is logged with status 200.
Finally(chunks, log) ==
  IF chunks # <<>> THEN Append(log, 200) ELSE log

InitStream ==
  /\ ProxyIdle
  /\ LifespanIdle
  /\ target = <<>>
  /\ temp = NoTemp
  /\ writer = NoWriter
  /\ cache_doc = NoDoc
  /\ skip_oauth_init = FALSE
  /\ rotating_client = NoClient
  /\ AuthIdle
  /\ AdapterIdle
  /\ \E chunks \in UNION { [1..n -> StreamChunks] : n \in 0..MaxStreamChunks },
        e \in StreamEnds :
       stream = [NoStream EXCEPT !.pc = "next", !.response_stream = chunks,
                                 !.end = e, !.sent = chunks]

\* The upstream yields a chunk (lines 670-673): the loop is left when the
\* client is gone, and the finally clause runs; else the chunk is yielded.
UpstreamYields ==
  /\ stream.pc = "next"
  /\ stream.response_stream # <<>>
  /\ stream' =
       IF stream.disconnected
         THEN [stream EXCEPT !.pc = "closed",
                             !.response_stream = Tail(@),
                             !.log = Finally(stream.response_chunks, @)]
         ELSE [stream EXCEPT !.pc = "yield",
                             !.response_stream = Tail(@),
                             !.out = Append(@, Head(stream.response_stream))]
  /\ UNCHANGED <<proxyVars, writeVars, lifespanVars, skip_oauth_init, rotating_client,
                 authVars, adapterVars>>

\* The consumer asks for the next frame: the chunk just yielded is
\* collected (674-684) and the upstream is awaited again.
ChunkCollected ==
  /\ stream.pc = "yield"
  /\ stream' = [stream EXCEPT !.pc = "next",
                               !.response_chunks = Collected(@, stream.out[Len(stream.out)])]
  /\ UNCHANGED <<proxyVars, writeVars, lifespanVars, skip_oauth_init, rotating_client,
                 authVars, adapterVars>>

\* The upstream is exhausted: the loop ends and the finally clause runs.
UpstreamEnds ==
  /\ stream.pc = "next"
  /\ stream.response_stream = <<>> /\ stream.end = "end"
  /\ stream' = [stream EXCEPT !.pc = "closed",
                               !.log = Finally(stream.response_chunks, @)]
  /\ UNCHANGED <<proxyVars, writeVars, lifespanVars, skip_oauth_init, rotating_client,
                 authVars, adapterVars>>

\* Line 697: the frames yielded so far and the error frame.
ErrorNotYielded(out) == out
ErrorYielded(out) == Append(out, ErrorFrame)

\* The upstream raises an Exception (685-697): the error frame is yielded.
UpstreamRaises ==
  /\ stream.pc = "next"
  /\ stream.response_stream = <<>> /\ stream.end = "raise"
  /\ stream' = [stream EXCEPT !.pc = "yield_error",
                               !.raised = TRUE,
                               !.out = ErrorYielded(@)]
  /\ UNCHANGED <<proxyVars, writeVars, lifespanVars, skip_oauth_init, rotating_client,
                 authVars, adapterVars>>

\* Line 698: the end marker is yielded after the error frame.
YieldDone ==
  /\ stream.pc = "yield_error"
  /\ stream' = [stream EXCEPT !.pc = "yield_done", !.out = Append(@, DoneFrame)]
  /\ UNCHANGED <<proxyVars, writeVars, lifespanVars, skip_oauth_init, rotating_client,
                 authVars, adapterVars>>

\* Lines 699-704: the failure is logged with status 500, the generator
\* returns and the finally clause runs.
ReturnAfterError ==
  /\ stream.pc = "yield_done"
  /\ stream' = [stream EXCEPT !.pc = "closed",
                               !.log = Finally(stream.response_chunks, Append(@, 500))]
  /\ UNCHANGED <<proxyVars, writeVars, lifespanVars, skip_oauth_init, rotating_client,
                 authVars, adapterVars>>

\* The client goes away: request.is_disconnected() answers True from now on.
ClientDisconnects ==
  /\ stream.pc # "closed"
  /\ ~stream.disconnected
  /\ stream' = [stream EXCEPT !.disconnected = TRUE]
  /\ UNCHANGED <<proxyVars, writeVars, lifespanVars, skip_oauth_init, rotating_client,
                 authVars, adapterVars>>

\* The consumer closes the generator while it is suspended at a yield:
\* GeneratorExit is no Exception, so only the finally clause runs.
ConsumerCloses ==
  /\ stream.pc \in {"yield", "yield_error", "yield_done"}
  /\ stream' = [stream EXCEPT !.pc = "closed", !.aborted = TRUE,
                               !.log = Finally(stream.response_chunks, @)]
  /\ UNCHANGED <<proxyVars, writeVars, lifespanVars, skip_oauth_init, rotating_client,
                 authVars, adapterVars>>

NextStream ==
  \/ UpstreamYields
  \/ ChunkCollected
  \/ UpstreamEnds
  \/ UpstreamRaises
  \/ YieldDone
  \/ ReturnAfterError
  \/ ClientDisconnects
  \/ ConsumerCloses

SpecStream == InitStream /\ [][NextStream]_vars

\* ------------------------------------------------------- proxy API key
\* verify_api_key (main.py 648-655) and the routes that depend on it.
ApiKeys == {None, "", "k1", "k2"}
AuthHeaders ==
  {None, "", "Bearer k1", "Bearer k2", "Bearer ", "Bearer k1 ", "Bearer  k1",
   "bearer k1", "Basic k1", "k1"}

\* The routes of the application (main.py 816-1048).
Endpoints ==
  {"/v1/chat/completions", "/v1/embeddings", "/v1/models", "/v1/models-enriched",
   "/v1/model-info/{model_id}", "/v1/model-info/stats", "/v1/providers",
   "/v1/token-count", "/v1/cost-estimate"}

\* The routes declaring _=Depends(verify_api_key).
AllButModels == Endpoints \ {"/v1/models"}
Guarded == Endpoints

\* verify_api_key: the status it raises, 0 when it returns auth.
VerifyApiKey(auth) ==
  IF PROXY_API_KEY \in {None, ""} THEN 0
  ELSE IF auth \in {None, ""} \/ auth # "Bearer " \o PROXY_API_KEY THEN 401
  ELSE 0

InitAuth ==
  /\ ProxyIdle
  /\ LifespanIdle
  /\ target = <<>>
  /\ temp = NoTemp
  /\ writer = NoWriter
  /\ cache_doc = NoDoc
  /\ skip_oauth_init = FALSE
  /\ rotating_client = NoClient
  /\ stream = NoStream
  /\ AdapterIdle
  /\ PROXY_API_KEY \in ApiKeys
  /\ request = NoRequest

\* A request arrives at a route: its dependencies are resolved, and when none
\* raises the handler runs and answers (200 stands for whatever it answers).
HandleRequest(endpoint, auth) ==
  LET raised == IF endpoint \in Guarded THEN VerifyApiKey(auth) ELSE 0 IN
  /\ request' = [endpoint |-> endpoint, auth |-> auth,
                  status |-> IF raised # 0 THEN raised ELSE 200]
  /\ UNCHANGED <<proxyVars, writeVars, lifespanVars, skip_oauth_init, rotating_client,
                 stream, PROXY_API_KEY, adapterVars>>

NextAuth == \E endpoint \in Endpoints, auth \in AuthHeaders : HandleRequest(endpoint, auth)

SpecAuth == InitAuth /\ [][NextAuth]_vars

\* ------------------------------------------------- device-code polling
\* The polling loop of _perform_interactive_oauth (lines 781-828).  Answers
\* to a poll:
\*   token      200 with the token data
\*   empty      200 with an empty JSON object
\*   pending    400, error authorization_pending
\*   slow_down  400, error slow_down
\*   other      400 with another error
\*   failed     a status on which raise_for_status raises, or no response
PollAnswers == {"token", "empty", "pending", "slow_down", "other", "failed"}
IntervalCap == 10

\* interval = int(interval * 1.5); if interval > 10: interval = 10
SlowedDown(interval) == Min(IntervalCap, (interval * 3) \div 2)

\* while time.time() - start_time < dev_data["expires_in"]
NoDeadline == TRUE
BeforeDeadline == poll.time - poll.start_time < poll.expires_in

\* Line 782-783: the loop starts with the interval the server indicated.
InitPoll ==
  /\ ProxyIdle
  /\ LifespanIdle
  /\ target = <<>>
  /\ temp = NoTemp
  /\ writer = NoWriter
  /\ cache_doc = NoDoc
  /\ AppIdle
  /\ details = NoDetails
  /\ trackingLock = NoOne
  /\ \E i \in 1..MaxStartInterval :
       poll = [NoPoll EXCEPT !.pc = "poll", !.interval = i,
                             !.expires_in = MaxPollSeconds]

\* A poll is sent and answered (lines 785-823).
PollSend(answer) ==
  /\ poll.pc = "poll"
  /\ BeforeDeadline
  /\ poll' =
       [poll EXCEPT
          !.answer = answer,
          !.sent_at = poll.time,
          !.before = poll.interval,
          !.interval = IF answer = "slow_down" THEN SlowedDown(@) ELSE @,
          !.pc = IF answer \in {"pending", "slow_down"} THEN "sleep" ELSE "done",
          !.outcome = CASE answer = "token" -> "token"
                        [] answer = "empty" -> "timeout"
                        [] answer \in {"other", "failed"} -> "error"
                        [] OTHER -> @]
  /\ UNCHANGED <<proxyVars, writeVars, lifespanVars, appVars, details, trackingLock>>

\* await asyncio.sleep(interval) (line 825).
PollSleep ==
  /\ poll.pc = "sleep"
  /\ poll' = [poll EXCEPT !.pc = "poll", !.time = @ + poll.interval]
  /\ UNCHANGED <<proxyVars, writeVars, lifespanVars, appVars, details, trackingLock>>

\* The loop test fails: raise TimeoutError (lines 784, 827-828).
PollDeadline ==
  /\ poll.pc = "poll"
  /\ ~BeforeDeadline
  /\ poll' = [poll EXCEPT !.pc = "done", !.outcome = "timeout"]
  /\ UNCHANGED <<proxyVars, writeVars, lifespanVars, appVars, details, trackingLock>>

NextPoll ==
  \/ \E answer \in PollAnswers : PollSend(answer)
  \/ PollSleep
  \/ PollDeadline

\* The event loop runs the coroutine and every poll is answered or fails.
SpecPoll == InitPoll /\ [][NextPoll]_vars /\ WF_vars(NextPoll)

\* ------------------------------------------- get_api_details, any identifier
\* get_api_details (lines 443-472) is called with a credential identifier of
\* one of three kinds: the env:// reference of an environment-sourced OAuth
\* credential, the path of a credential file, or a direct API key.  The
\* legacy variables QWEN_CODE_ACCESS_TOKEN and QWEN_CODE_REFRESH_TOKEN are
\* not set.
EnvPath == "env://qwen_code/1"
FilePath == "oauth_creds/qwen_code_oauth_1.json"
DirectKey == "sk-direct"
Identifiers == {EnvPath, FilePath, DirectKey}

\* Credentials the environment or the file may hold: expired long ago, inside
\* the refresh buffer, or fresh.
StoredCreds ==
  { CredRec(at, 1, exp) : at \in {"at-1", "at-2"},
                          exp \in {0, 7200 * 1000, 21600 * 1000} }

\* The access token a successful refresh stores.
RefreshedToken == "at-new"

\* _parse_env_credential_path(path) is not None (lines 79-85).
IsEnvPath(path) == path = EnvPath

\* os.path.isfile(credential_identifier): only the credential file is a file.
IsFile(path) == path = FilePath /\ details.disk # NoCreds

\* What _load_credentials(path) returns on an empty cache (lines 176-201):
\* the environment's credential for an env:// path, the file's otherwise.
LoadedCredentials(path) == IF IsEnvPath(path) THEN details.environ ELSE details.disk

InitDetails ==
  /\ ProxyIdle
  /\ LifespanIdle
  /\ target = <<>>
  /\ temp = NoTemp
  /\ writer = NoWriter
  /\ cache_doc = NoDoc
  /\ AppIdle
  /\ poll = NoPoll
  /\ trackingLock = NoOne
  /\ \E id \in Identifiers, e, d \in StoredCreds \cup {NoCreds} :
       details = [NoDetails EXCEPT !.pc = "call", !.credential_identifier = id,
                                   !.environ = e, !.disk = d]

\* Lines 452-472 up to the await of _refresh_token: a file is loaded and, when
\* its token is not expired, its access_token is returned; anything that is
\* not a file is returned as the token.
GetApiDetailsAny ==
  /\ details.pc = "call"
  /\ LET id == details.credential_identifier IN
       details' =
         IF IsFile(id)
           THEN IF IsTokenExpired(LoadedCredentials(id))
                  THEN [details EXCEPT !.pc = "refresh"]
                  ELSE [details EXCEPT !.pc = "done", !.outcome = "returned",
                          !.access_token = LoadedCredentials(id).at]
           ELSE [details EXCEPT !.pc = "done", !.outcome = "returned",
                                !.access_token = id]
  /\ UNCHANGED <<proxyVars, writeVars, lifespanVars, appVars, poll, trackingLock>>

\* _refresh_token returns the refreshed credential, which is saved to the
\* file, or raises (line 460).
DetailsRefreshed(ok) ==
  /\ details.pc = "refresh"
  /\ details' =
       IF ok
         THEN [details EXCEPT !.pc = "done", !.outcome = "returned",
                 !.access_token = RefreshedToken,
                 !.disk = CredRec(RefreshedToken, 1, 21600 * 1000)]
         ELSE [details EXCEPT !.pc = "done", !.outcome = "raised"]
  /\ UNCHANGED <<proxyVars, writeVars, lifespanVars, appVars, poll, trackingLock>>

NextDetails ==
  \/ GetApiDetailsAny
  \/ \E ok \in BOOLEAN : DetailsRefreshed(ok)

SpecDetails == InitDetails /\ [][NextDetails]_vars

\* -------------------------------------------------------------- properties
\* Tasks whose interactive flow (the device-code function) is executing.
FlowsRunning == { p \in Procs : flow[p] = "running" }

\* C1: at most one interactive flow is executing at any moment, and a flow that
\* initialize_token started runs inside execute_reauth: its caller holds the
\* coordinator's lock, waits for the task and is registered under the id.
C1_OneInteractiveFlow ==
  /\ Cardinality(FlowsRunning) <= 1
  /\ \A p \in FlowsRunning :
       /\ reauthLock = p
       /\ pc[p] = "er_wait"
       /\ Has(reauthTasks, ReauthId(PathOf(p)))
       /\ reauthTasks[ReauthId(PathOf(p))] = p

\* A flow is executing while a second caller, for the other credential,
\* waits at the coordinator's lock.
C1_Witness ==
  \E p \in Procs, q \in Procs :
    /\ flow[p] = "running"
    /\ pc[q] = "er_lock"
    /\ running = NoOne
    /\ PathOf(p) # PathOf(q)

\* Tasks inside the refresh exchange for c: the POST is sent, the response and
\* the update of c's tokens are still to come.
InExchange(c) == { p \in Procs : pc[p] = "rt_post" /\ PathOf(p) = c }

\* C2: for every credential at most one task is inside the refresh exchange,
\* and that task holds the credential's lock.
C2_SerializedRefresh ==
  \A c \in Creds :
    /\ Cardinality(InExchange(c)) <= 1
    /\ \A p \in InExchange(c) : refreshLock[c] = p

\* One task is inside the exchange for c while another, that came by a
\* different operation, waits for c's lock in _refresh_token.
C2_Witness ==
  \E c \in Creds, p \in Procs, q \in Procs :
    /\ p \in InExchange(c)
    /\ pc[q] = "rt_lock"
    /\ PathOf(q) = c
    /\ running = NoOne
    /\ hist[p].op # hist[q].op

\* Task p sends a refresh POST in this step: the first of a call of
\* _refresh_token, or a retry.
PostStarts(p) ==
  /\ pc'[p] = "rt_post"
  /\ pc[p] # "rt_post" \/ local'[p].attempt # local[p].attempt

\* C3: while the backoff timer of a credential is set and has not expired, no
\* task starts a refresh POST for that credential.
C3_NoRefreshDuringBackoff ==
  [][ \A p \in Procs : PostStarts(p) => ~InBackoff(local'[p].path) ]_vars

\* The call of _refresh_token that task p is in ends with an exception in
\* this step.
RefreshRaises(p) ==
  /\ pc[p] \in {"rt_post", "rt_reauth_ret"}
  /\ stack[p] # <<>>
  /\ stack'[p] = Tail(stack[p])
  /\ exc'[p] = "error"

\* The reasons C4 lists: 401/403 with a failed re-auth, 429, 5xx or network
\* error after the last retry, a 200 response rejected for missing tokens.
ListedFailures == {"denied", "limited", "server", "network", "empty"}

\* C4: a call of _refresh_token that ends unsuccessfully for one of the listed
\* reasons has, when the error reaches the caller, incremented the failure
\* counter by one and set the timer to now + min(300, 30 * 2^F).
C4_FailureRecorded ==
  [][ \A p \in Procs :
        (RefreshRaises(p) /\ hist'[p].resp \in ListedFailures) =>
          LET c == local[p].path IN
            /\ Has(failures', c)
            /\ failures'[c] = Get(failures, c, 0) + 1
            /\ Has(nextAfter', c)
            /\ nextAfter'[c] = now + Min(300, 30 * (2 ^ failures'[c])) ]_vars

\* The windows C5 lists for the k-th consecutive failure.
ListedWindow(k) ==
  CASE k = 1 -> 60
    [] k = 2 -> 120
    [] k = 3 -> 240
    [] OTHER -> 300

\* C5: whenever a failure is recorded for a credential, the window the timer
\* then leaves is the one listed for the new count: 60, 120, 240, 300, 300, ...
C5_BackoffWindow ==
  [][ \A c \in Creds :
        (Has(failures', c) /\ failures'[c] # Get(failures, c, 0)) =>
          /\ Has(nextAfter', c)
          /\ nextAfter'[c] - now' = ListedWindow(failures'[c])
          /\ nextAfter'[c] - now' <= 300 ]_vars

\* A fifth consecutive failure has just been recorded: the window is at the
\* cap for the second time.
C5_Witness ==
  \E c \in Creds :
    /\ Has(failures, c)
    /\ failures[c] = 5
    /\ nextAfter[c] = now + 300

\* C6: when an operation returns after a successful refresh or a successful
\* interactive re-auth of its credential, the credential has no failure
\* counter and no backoff timer.
C6_BackoffClearedOnSuccess ==
  [][ \A p \in Clients :
        ( /\ pc[p] = "op_ret"
          /\ pc'[p] = "idle"
          /\ hist[p].refreshed \/ hist[p].reauthed ) =>
          /\ ~Has(failures', PathOf(p))
          /\ ~Has(nextAfter', PathOf(p)) ]_vars

\* C7: a credential that is in the queued set eventually leaves the queued
\* set and the unavailable set.
C7_EnqueueProcessed ==
  \A c \in Creds : (c \in queued) ~> (c \notin queued /\ ~Has(unavailable, c))

\* C8: after a 401/403 answer to a task's refresh POST, that task eventually
\* runs an interactive flow.
C8_DeniedLeadsToReauth ==
  \A p \in Procs : (hist[p].resp = "denied") ~> (flow[p] = "running")

\* C9: a caller that called execute_reauth while a flow for the same id was
\* in progress does not run the re-auth function itself (stated for the time
\* before any timeout can have expired, when the flow it met cannot have been
\* cancelled).
C9_SecondCallerJoins ==
  \A p \in Procs :
    (hist[p].arrived /\ now < ReauthTimeoutSeconds) => flow[p] # "running"

AvailabilityAsked(p) ==
  /\ pc[p] = "idle"
  /\ hist'[p].op = "is_credential_available"

\* C11: is_credential_available returns false for an entry that is at most
\* 300 s old and leaves it; for an entry older than 300 s it returns true and
\* removes it; for a credential without an entry it returns true and changes
\* nothing.
C11_AvailabilityTtl ==
  [][ \A p \in Clients :
        AvailabilityAsked(p) =>
          LET c == local'[p].path IN
            IF ~Has(unavailable, c)
              THEN hist'[p].avail = "yes" /\ unavailable' = unavailable
              ELSE IF now - unavailable[c] <= 300
              THEN hist'[p].avail = "no" /\ unavailable' = unavailable
              ELSE hist'[p].avail = "yes" /\ unavailable' = Pop(unavailable, c) ]_vars

\* is_credential_available has just reaped the entry, more than 300 s old,
\* of a credential that is still in the queued set because the worker is
\* stuck with it.
C11_Witness ==
  \E p \in Clients, c \in Creds :
    /\ hist[p].op = "is_credential_available"
    /\ hist[p].avail = "yes"
    /\ PathOf(p) = c
    /\ c \in queued
    /\ ~Has(unavailable, c)
    /\ PathOf(Worker) = c
    /\ pc[Worker] \in {"lc_lock", "rt_lock"}

\* The worker goes back to waiting on the queue in this step, done with the
\* item it had taken.
WorkerDoneWithItem ==
  /\ pc[Worker] \notin {"w_get", "w_off"}
  /\ pc'[Worker] = "w_get"

C13_ReauthItemAttempted ==
  [][ (WorkerDoneWithItem /\ local[Worker].needs_reauth) =>
        \/ hist[Worker].resp # "none"
        \/ flow[Worker] # "none" ]_vars

\* C17: when initialize_token is about to return without an exception, the
\* cached credential has a non-empty refresh_token.
C17_RefreshTokenKept ==
  \A p \in Clients :
    (hist[p].op = "initialize_token" /\ pc[p] = "op_ret" /\ exc[p] = "none") =>
      /\ Has(cache, PathOf(p))
      /\ cache[PathOf(p)].rt # 0

\* C14: a caller of get_api_details that found the cached token expired sends
\* a refresh POST only while that token is still the cached one: of the callers
\* that found the same expired token, one sends a POST and the others use its
\* result.
C14_OnePostPerExpiredToken ==
  [][ \A p \in Clients :
        (PostStarts(p) /\ hist[p].op = "get_api_details") =>
          cache'[PathOf(p)].at = hist[p].seen ]_vars

\* Task p's refresh POST is answered with a token that passes validation and is
\* saved in this step.
RefreshSucceeds(p) ==
  /\ pc[p] = "rt_post"
  /\ ~hist[p].refreshed
  /\ hist'[p].refreshed

\* C16: a successful refresh leaves expiry_date at or above its value before
\* the refresh.
C16_ExpiryMonotonic ==
  [][ \A p \in Procs :
        RefreshSucceeds(p) =>
          cache'[PathOf(p)].exp >= cache[PathOf(p)].exp ]_vars

\* C18: whenever the cached document of a credential changes, the credential
\* file holds the new document at the end of the same step.
C18_CacheFollowsFile ==
  [][ \A c \in Creds :
        (Has(cache, c) /\ cache'[c] # cache[c]) => file'[c] = cache'[c] ]_vars

\* The operation of task p found the cached token expired after loading it.
FoundExpired(p) == hist[p].seen # -1

\* C15 as stated: a call of get_api_details that ends has sent a refresh POST
\* if and only if it found the cached expiry earlier than now + 10800 s.
C15_PostIffExpired ==
  \A p \in Clients :
    (pc[p] = "op_ret" /\ hist[p].op = "get_api_details") =>
      (FoundExpired(p) <=> hist[p].resp # "none")

\* C15, amended: get_api_details goes on to _refresh_token exactly when the
\* cached expiry is earlier than now + 10800 s after the load, and otherwise
\* returns with the cache and the file unchanged; under the credential's lock a
\* refresh POST is sent exactly when the cached expiry is still earlier than
\* now + 10800 s and the credential has a refresh_token.
C15_RefreshIffExpired ==
  [][ \A p \in Clients :
        hist[p].op = "get_api_details" =>
          LET c == PathOf(p) IN
          /\ (pc[p] = "gad_loaded" /\ pc'[p] # "gad_loaded") =>
               IF cache[c].exp < (now + 10800) * 1000
                 THEN pc'[p] = "rt_lock"
                 ELSE /\ pc'[p] = "op_ret"
                      /\ exc'[p] = "none"
                      /\ hist'[p].resp = "none"
                      /\ cache' = cache
                      /\ file' = file
          /\ (pc[p] = "rt_lock" /\ pc'[p] # "rt_lock") =>
               (pc'[p] = "rt_post" <=>
                  (cache'[c].exp < (now + 10800) * 1000 /\ cache'[c].rt # 0)) ]_vars

\* A caller of get_api_details that found the token expired returns the
\* cached token without a POST of its own: another caller refreshed the token
\* while it waited for the lock.
C15_Witness ==
  \E p \in Clients :
    /\ pc[p] = "op_ret"
    /\ hist[p].op = "get_api_details"
    /\ FoundExpired(p)
    /\ hist[p].resp = "none"
    /\ exc[p] = "none"
    /\ cache[PathOf(p)].at # hist[p].seen
    /\ cache[PathOf(p)].exp >= (now + 10800) * 1000

\* C19: after a crash at any step of any code path that rewrites a credential
\* file, the file holds its complete old content or its complete new content.
C19_AtomicWrite ==
  writer.pc = "crashed" => target \in {writer.old, writer.new}

\* The paths lifespan kept.
Kept == { final_oauth_credentials[k] : k \in 1..Len(final_oauth_credentials) }

\* File path resolves to email e: its initialization raised nothing and
\* get_user_info named e.
Resolves(path, e) ==
  /\ ~oauth_credentials[path].error
  /\ oauth_credentials[path].post = e

\* C20: when start-up processing is complete, of the files that resolve to the
\* same non-empty email the first in enumeration order is kept and every later
\* one is skipped.
C20_EarlierWins ==
  lifespan.pass = "done" =>
    \A e \in Emails :
      \A i, j \in 1..Len(oauth_credentials) :
        ( /\ i < j
          /\ Resolves(i, e) /\ Resolves(j, e)
          /\ \A h \in 1..(i - 1) : ~Resolves(h, e) ) =>
            (i \in Kept /\ j \notin Kept)

\* C22: a save of credentials loaded from the environment leaves the target
\* file as it was, absent if it was absent, has no temporary file, and when it
\* returns the cache entry of the path is the value saved.
C22_EnvSaveTouchesNoFile ==
  writer.env =>
    /\ target = writer.old
    /\ temp = NoTemp
    /\ writer.pc = "done" => cache_doc = writer.new

\* A save of credentials from the environment has returned, with no file at
\* the path.
C22_Witness ==
  /\ writer.env /\ writer.pc = "done"
  /\ writer.old = NoFile /\ target = NoFile
  /\ cache_doc = writer.new

\* What the wrapper yields in all when the upstream raises after the chunks of
\* sent: the chunks, the error frame, the end marker.
FramesOnError == stream.sent \o <<ErrorFrame, DoneFrame>>

IsPrefix(a, b) == Len(a) <= Len(b) /\ a = SubSeq(b, 1, Len(a))

\* C23: once the upstream has raised after k chunks were forwarded, the frames
\* yielded are at every moment a prefix of those k chunks, one error frame and
\* the end marker, and they are exactly that when the generator has finished
\* without being closed by its consumer.
C23_ErrorFrameThenDone ==
  stream.raised =>
    /\ IsPrefix(stream.out, FramesOnError)
    /\ Len(stream.out) > Len(stream.sent)
    /\ (stream.pc = "closed" /\ ~stream.aborted) => stream.out = FramesOnError

\* The upstream raised after two chunks and the generator has finished.
C23_Witness ==
  /\ stream.raised /\ stream.pc = "closed" /\ ~stream.aborted
  /\ Len(stream.sent) = 2
  /\ stream.out = FramesOnError

\* C24: with PROXY_API_KEY set to a non-empty value, a request to any route is
\* answered 401 exactly when its Authorization header is not "Bearer "
\* followed by the key; with the key unset or empty no request is answered 401.
C24_BearerKeyRequired ==
  request.endpoint \in Endpoints =>
    IF PROXY_API_KEY # None /\ PROXY_API_KEY # ""
      THEN request.status = 401 <=> request.auth # "Bearer " \o PROXY_API_KEY
      ELSE request.status # 401

\* A request with the key of another configuration was rejected.
C24_Witness ==
  /\ PROXY_API_KEY = "k1"
  /\ request.endpoint = "/v1/models"
  /\ request.auth = "Bearer k2"
  /\ request.status = 401

\* The email the metadata of a credential file names.
EmailOf(path) == oauth_credentials[path].pre

\* C21: once the client is created, no two of the credentials it was handed
\* name the same non-empty email.
C21_HandedEmailsUnique ==
  rotating_client.created =>
    LET handed == rotating_client.oauth_credentials IN
    \A i, j \in 1..Len(handed) :
      (i # j /\ EmailOf(handed[i]) # NoEmail) =>
        EmailOf(handed[i]) # EmailOf(handed[j])

\* C26: the refresh queue never holds two entries for the same credential.
C26_NoDuplicateEntries ==
  \A i, j \in 1..Len(queue) : i # j => queue[i].path # queue[j].path

\* A worker task is created in this step: a task that was at rest or on its
\* way out is at the start of _process_refresh_queue.
WorkerCreated ==
  /\ pc[Worker] \in {"w_off", "w_timeout"}
  /\ pc'[Worker] = "w_get"

\* C28: a worker task is created only when no worker task is alive, and the
\* adapter's task reference is unset exactly when no worker task is alive.
C28_OneWorker ==
  [][ /\ WorkerCreated => pc[Worker] = "w_off"
      /\ (workerTask' = "none") <=> (pc'[Worker] = "w_off") ]_vars

\* An enqueue was admitted between the worker's timeout and its exit, and no
\* second worker was started for it.
C28_Witness ==
  /\ pc[Worker] = "w_timeout"
  /\ queue # <<>>
  /\ workerTask = "alive"

\* C29: whenever the refresh queue holds an item, a worker task is alive and
\* the item's credential is marked queued.
C29_QueuedItemHasWorker ==
  \A i \in 1..Len(queue) :
    /\ workerTask = "alive"
    /\ queue[i].path \in queued

\* The queue's bookkeeping an enqueue may change.
enqueueVars == <<queue, queued, unavailable, workerTask>>

\* C25: a call _queue_refresh(c, needs_reauth = false) made before c's
\* next-refresh time, by the rotating client or by proactively_refresh, leaves
\* the queue, the queued set, the unavailable set and the worker task as they
\* are; a call with needs_reauth = true for a credential that is not queued is
\* admitted whatever the timer says.
C25_BackoffDropsSilently ==
  [][ \A p \in Clients :
        /\ \A c \in Creds, f \in BOOLEAN :
             /\ (ReactiveRefresh(p, c, f, FALSE) /\ Has(nextAfter, c) /\ now < nextAfter[c])
                  => UNCHANGED enqueueVars
             /\ (ReactiveRefresh(p, c, f, TRUE) /\ c \notin queued)
                  => /\ queue' = Append(queue, [path |-> c, force |-> f, needs_reauth |-> TRUE])
                     /\ c \in queued'
                     /\ Has(unavailable', c)
                     /\ workerTask' = "alive"
        /\ ( /\ pc[p] = "pr_loaded"
             /\ pc'[p] # "pr_loaded"
             /\ Has(nextAfter, PathOf(p))
             /\ now < nextAfter[PathOf(p)] )
             => UNCHANGED enqueueVars ]_vars

\* An item with needs_reauth = true was put into the queue inside the backoff
\* window of its credential.
C25_Witness ==
  \E c \in Creds, i \in 1..Len(queue) :
    /\ queue[i].path = c
    /\ queue[i].needs_reauth
    /\ Has(nextAfter, c) /\ Has(failures, c) /\ Has(unavailable, c)
    /\ now < nextAfter[c]
    /\ unavailable[c] >= nextAfter[c] - BackoffSeconds(failures[c])

\* C27: the worker goes from its expiry re-check straight back to the queue,
\* without calling _refresh_token, only for an item with force = false whose
\* cached token is not expired.
C27_ForceAlwaysRefreshes ==
  [][ (pc[Worker] = "w_lock" /\ pc'[Worker] = "w_get") =>
        /\ ~local[Worker].force
        /\ Has(cache, PathOf(Worker))
        /\ cache[PathOf(Worker)].exp >= (now + 10800) * 1000 ]_vars

\* Task p takes credential c's lock in this step, or holds it.
HoldsLockInStep(p, c) ==
  \/ refreshLock[c] = p
  \/ /\ refreshLock[c] = NoOne
     /\ PathOf(p) = c
     /\ pc[p] \in {"lc_lock", "rt_lock"}
     /\ pc'[p] # pc[p]

\* C30: whenever the cached entry of a credential is created or changed, the
\* step is taken by a task that holds the credential's lock.
C30_CacheMutatedUnderLock ==
  [][ \A c \in Creds :
        (Has(cache', c) /\ (~Has(cache, c) \/ cache'[c] # cache[c])) =>
          \E p \in Procs : HoldsLockInStep(p, c) ]_vars

\* C31: a step of _refresh_token that takes a 200 response with an empty
\* access_token leaves the cached and the stored credential as they were.
C31_InvalidResponseLeavesCredential ==
  [][ \A p \in Procs : \A resp \in RefreshResponses :
        (resp.kind = "empty" /\ RefreshResponse(p, resp)) =>
          (cache' = cache /\ file' = file) ]_vars

\* C33: a slow_down answer received while the interval is below 10 s makes
\* the interval strictly greater, and at most 10 s.
C33_SlowDownRaisesInterval ==
  [][ (poll.pc = "poll" /\ poll'.pc = "sleep" /\ poll'.answer = "slow_down"
         /\ poll.interval < 10) =>
        (poll'.interval > poll.interval /\ poll'.interval <= 10) ]_vars

\* The deadline had passed when the loop was left.
DeadlinePassed == poll.time - poll.start_time >= poll.expires_in

\* C34 as stated: the loop terminates; it ends with the token after a 200
\* answer, with an error only after a 400 answer with another error, and with
\* a timeout only once expires_in seconds have passed; no poll is sent after
\* the deadline.
C34_PollingEndsAsListed ==
  /\ <>(poll.pc = "done")
  /\ [](poll.pc = "done" =>
          /\ poll.answer \in {"token", "empty"} => poll.outcome = "token"
          /\ poll.outcome = "error" => poll.answer = "other"
          /\ poll.outcome = "timeout" => DeadlinePassed)
  /\ [](poll.sent_at - poll.start_time < poll.expires_in)

\* C34, amended: the loop terminates; it ends with the token after a 200
\* answer that carries token data, with an error after a 400 answer with
\* another error or an answer on which raise_for_status raises, and with a
\* timeout error after a 200 answer without token data or once expires_in
\* seconds have passed; no poll is sent after the deadline.
C34_PollingTerminates ==
  /\ <>(poll.pc = "done")
  /\ [](poll.pc = "done" =>
          /\ poll.outcome = "token" <=> poll.answer = "token"
          /\ poll.outcome = "error" <=> poll.answer \in {"other", "failed"}
          /\ poll.outcome = "timeout" <=>
               (poll.answer = "empty" \/
                  (poll.answer \in {"none", "pending", "slow_down"} /\ DeadlinePassed)))
  /\ [](poll.sent_at - poll.start_time < poll.expires_in)

\* The loop ended with the error of a failed poll, before the deadline.
C34_Witness ==
  /\ poll.pc = "done" /\ poll.outcome = "error" /\ poll.answer = "failed"
  /\ poll.time > poll.start_time /\ ~DeadlinePassed

\* C32: a call of _refresh_token sends at most three POSTs and terminates: a
\* task that waits for the answer to a refresh POST is in its third attempt at
\* most, and eventually it has left the call, the credential's lock released.
C32_RefreshTerminates ==
  /\ [](\A p \in Procs : pc[p] = "rt_post" => local[p].attempt + 1 <= 3)
  /\ \A p \in Procs :
       (pc[p] = "rt_post") ~> (\A c \in Creds : refreshLock[c] # p)

\* The bound on the POSTs of one call alone.
C32_AtMostThreePosts ==
  \A p \in Procs : pc[p] = "rt_post" => local[p].attempt + 1 <= 3

\* C35: when the worker calls _refresh_token for the item it took, it is
\* eventually back at its wait on the queue, whatever the outcome of the
\* refresh, with the item's credential out of the queued set.
C35_WorkerSurvivesFailure ==
  \A c \in Creds :
    (pc[Worker] = "rt_lock" /\ PathOf(Worker) = c) ~> (pc[Worker] = "w_get" /\ c \notin queued)

\* C37: every credential in the unavailable set is in the queued set.
C37_UnavailableIsQueued ==
  \A c \in Creds : Has(unavailable, c) => c \in queued

\* One credential is in both sets while another, reaped by
\* is_credential_available, is in the queued set only.
C37_Witness ==
  \E c, d \in Creds :
    /\ Has(unavailable, c) /\ c \in queued
    /\ ~Has(unavailable, d) /\ d \in queued

\* C38: a _queue_refresh for a credential that is not in the unavailable set
\* (is_credential_available answers true) and not in its backoff window
\* admits it: the credential is appended to the queue and marked unavailable.
C38_AvailableIsAdmitted ==
  [][ \A p \in Clients : \A c \in Creds : \A f, nr \in BOOLEAN :
        (ReactiveRefresh(p, c, f, nr) /\ ~Has(unavailable, c) /\ ~InBackoff(c)) =>
          /\ Len(queue') = Len(queue) + 1
          /\ queue'[Len(queue')].path = c
          /\ Has(unavailable', c) ]_vars

\* C39: for an environment-sourced OAuth credential (env://PROVIDER/INDEX whose
\* variables are set) get_api_details returns that credential's access token,
\* refreshed when it was inside the expiry buffer, and never the identifier
\* string itself.
C39_EnvTokenReturned ==
  LET id == details.credential_identifier IN
    (/\ details.pc = "done"
     /\ details.outcome = "returned"
     /\ IsEnvPath(id)
     /\ details.environ # NoCreds) =>
        /\ details.access_token # id
        /\ details.access_token \in {details.environ.at, RefreshedToken}

\* C36: the task that holds the queue-tracking mutex is executing, and it is
\* not at the acquisition of a per-credential lock or of the global re-auth
\* lock: the mutex is held only across steps that wait for no other lock.
C36_TrackingNeverWaits ==
  \A p \in Procs :
    trackingLock = p => /\ running = p
                        /\ pc[p] \notin LockLabels \cup {"er_lock"}

\* The worker holds the mutex inside the per-credential lock of its item,
\* about to mark the credential available.
C36_Witness ==
  /\ trackingLock = Worker
  /\ refreshLock[PathOf(Worker)] = Worker
  /\ pc[Worker] = "w_skip"

====
